---- MODULE Spec2Model ----
(***************************************************************************)
(* Retrieval and synthesis pipeline of nexora_context_backend:             *)
(*   Executor.executeTools -> DatabaseQueryTool.execute -> the keyword,    *)
(*   knowledge-graph and vector searches (run under Promise.all), the      *)
(*   entity-driven vector lookups, the merge, and Refiner.refineResults    *)
(*   with Refiner.calculateConfidence.                                     *)
(*                                                                         *)
(* An async function runs without interruption between two awaits, so an   *)
(* action is "the awaited call resolves and the code runs on to the next   *)
(* await (issuing the next call) or to its return".  The collaborators     *)
(* (LLM, relational store, vector index) answer from a small fixed corpus, *)
(* or fail.  Confidence values are exact rationals [num, den].             *)
(***************************************************************************)
EXTENDS Integers, Sequences, FiniteSets, TLC

\* ------------------------------------------------------------------ bounds
\* Longest JSON array the rephrase completion returns (the prompt asks for 2).
MaxRephrased == 3
\* Store calls of one knowledgeGraphSearch that deviate from the corpus
\* (error value, exception, null data).
MaxKgFaults == 1
\* Longest list of tool results handed to the refiner on its own.
MaxTools == 4
\* Largest value of a usage counter (requests today, this month, hero points).
MaxQuota == 1

\* ------------------------------------------------------- program constants
ContextWords == 50
VectorLimit == 5
EntityVectorLimit == 3
Cap3 == 95
Cap2 == 85
Cap1 == 70

Null == "null"
Query == "q"
User == "u1"
NotFoundMessage == "I couldn't find the information needed to answer your query. Please try rephrasing."
UnableMessage == "Unable to generate response"
UserRequiredError == "clerk_user_id is required for database queries"
NotIterableError == "rephrased is not iterable"
ToolName == "database_query"

\* ------------------------------------------------------------ JS values
JsArray(s) == [t |-> "array", v |-> s]
JsObject == [t |-> "object", v |-> <<>>]
JsString(s) == [t |-> "string", v |-> s]
\* what [...x] and for..of accept
Iterable(x) == x.t \in {"array", "string"}

\* A completion: the call throws, or it resolves with a content that is
\* missing/empty, not JSON, or the JSON text of a value.
Throw == [kind |-> "throw", syn |-> "none", val |-> JsObject]
NoContent == [kind |-> "ok", syn |-> "empty", val |-> JsObject]
BadJson == [kind |-> "ok", syn |-> "bad", val |-> JsObject]
JsonOf(x) == [kind |-> "ok", syn |-> "json", val |-> x]

\* JSON.parse(content || dflt): ok/value, or a SyntaxError
JSONParse(resp, dflt) ==
  IF resp.syn = "empty" THEN [ok |-> TRUE, val |-> dflt]
  ELSE IF resp.syn = "json" THEN [ok |-> TRUE, val |-> resp.val]
  ELSE [ok |-> FALSE, val |-> JsObject]

RephrasingNames == <<"r1", "r2", "r3", "r4", "r5", "r6">>
Rephrasing(i) == RephrasingNames[i]
RephraseResponses ==
  {Throw, NoContent, BadJson, JsonOf(JsObject), JsonOf(JsString(<<"c">>))}
    \cup {JsonOf(JsArray([i \in 1..n |-> Rephrasing(i)])) : n \in 0..MaxRephrased}

\* ------------------------------------------------------------ the corpus
\* documents in which the knowledge graph holds an entity of that name
GraphDocs(e) == IF e = "e1" THEN <<"d1", "d2">> ELSE IF e = "e2" THEN <<"d1">> ELSE <<>>
Other(e) == IF e = "e1" THEN "e2" ELSE "e1"
EntityRows(e) ==
  [j \in 1..Len(GraphDocs(e)) |->
     [entity_name |-> e, entity_type |-> "T", data_id |-> GraphDocs(e)[j]]]
RelationshipRows(e, d) ==
  IF d = "d1" THEN <<[subject |-> e, predicate |-> "p", object |-> Other(e), data_id |-> d]>>
  ELSE <<>>
RelatedRows(e, d) ==
  IF d = "d1" THEN <<[entity_name |-> Other(e), entity_type |-> "T", data_id |-> d]>>
  ELSE <<>>
KeywordRows == <<[data_id |-> "d1", context_text |-> "ctx"],
                 [data_id |-> "d2", context_text |-> "ctx"]>>
\* documents the index ranks for a concept, nearest first
IndexDocs(c) ==
  IF c = Query \/ c = "e1" THEN <<"d1", "d2">>
  ELSE IF c = Rephrasing(1) THEN <<"d2">>
  ELSE IF c = "e2" THEN <<"d1">>
  ELSE <<>>
EntityLists == {<<>>, <<"e1">>, <<"e2">>, <<"e1", "e2">>, <<"e0", "e1">>}

Take(s, n) == IF Len(s) <= n THEN s ELSE SubSeq(s, 1, n)
Last(s) == s[Len(s)]
\* the call a search awaits when it stands at one of pcs
Awaited(x, pcs) == IF x.pc \in pcs THEN {Last(x.calls)} ELSE {}
\* the where-filter on document_id (AnyDoc: no filter)
AnyDoc == "*"
Keep(s, d) == SelectSeq(s, LAMBDA x : d = AnyDoc \/ x = d)

\* relational store: rows, an error value, null data, or an exception
Rows(r) == [kind |-> "rows", rows |-> r]
StoreError == [kind |-> "error", rows |-> <<>>]
StoreNull == [kind |-> "null", rows |-> <<>>]
StoreThrow == [kind |-> "throw", rows |-> <<>>]
StoreFaults == {StoreError, StoreNull, StoreThrow}
\* vector index: hits under data.Get[class], no such key, or an exception
Hits(h) == [kind |-> "hits", docs |-> h]
IndexNoData == [kind |-> "nodata", docs |-> <<>>]
IndexThrow == [kind |-> "throw", docs |-> <<>>]
IndexAnswers(c, limit, d) == {Hits(Take(Keep(IndexDocs(c), d), limit)), IndexNoData, IndexThrow}

\* ------------------------------------------------------------------ state
VARIABLES
  clerkUserId,     \* config.clerkUserId of the request (Null: absent)
  toolRegistered,  \* the registry holds database_query
  pc,              \* where executeTools/execute/refineResults stand
  rephraseResp,    \* the completion rephraseQuery received
  allQueries,      \* execute: [query, ...rephrased]
  kw,              \* keywordSearch: its position, call and result
  kg,              \* knowledgeGraphSearch: its position, locals and calls
  vec,             \* vectorSearch: its position, accumulator and calls
  ev,              \* searchEntitiesInVector: likewise
  toolResults,     \* what executeTools returned
  synth,           \* the refiner's completion calls and what came back
  answer,          \* the RefinedResponse
  world,           \* how each collaborator answers each call, where that is fixed
  h,               \* the context_finder handler around the pipeline
  other,           \* a second request, served at the same time
  users            \* the row of the users table that holds the usage counters

vars == <<clerkUserId, toolRegistered, pc, rephraseResp, allQueries, kw, kg, vec, ev,
          toolResults, synth, answer, world, h, other, users>>

NoResp == [kind |-> "none", syn |-> "none"]
NoAnswer == [content |-> "", confidence |-> [num |-> 0, den |-> 1], set |-> FALSE]
KwIdle == [pc |-> "idle", resp |-> NoResp, results |-> <<>>, calls |-> <<>>]
KgIdle == [pc |-> "idle", resp |-> NoResp, i |-> 0, rows |-> <<>>, j |-> 0,
           extracted |-> <<>>, results |-> <<>>, foundEntities |-> <<>>,
           entitiesWithDocuments |-> <<>>, calls |-> <<>>, faults |-> 0]
VecIdle == [pc |-> "idle", i |-> 0, allResults |-> <<>>, calls |-> <<>>, failed |-> 0]
EvIdle == [pc |-> "idle", i |-> 0, results |-> <<>>, calls |-> <<>>]
SynthIdle == [calls |-> 0, resp |-> NoResp, prompt |-> <<>>]
\* every collaborator answers from the corpus and every call resolves
NominalWorld ==
  [rephrase |-> JsonOf(JsArray(<<>>)), keyword |-> "rows", extract |-> JsonOf([t |-> "entities", v |-> <<>>]),
   fault |-> [fn |-> "none", name |-> "", doc |-> "", kind |-> "rows"],
   indexDown |-> {}, synth |-> "answer", stall |-> [who |-> "none", at |-> 0]]
\* the users row: its counters, or the lookup's error value, missing row or exception
UsageRow(kind, today, month, hero) == [kind |-> kind, today |-> today, month |-> month, hero |-> hero]
UsageCheck(canProceed, message, row) ==
  [canProceed |-> canProceed, message |-> message, availableToday |-> row.today,
   availableMonth |-> row.month, heroPoints |-> row.hero]
NoUsage == UsageRow("row", 0, 0, 0)
HandlerIdle == [pc |-> "idle", text |-> "", usageCheck |-> UsageCheck(FALSE, "", NoUsage), useHeroPoints |-> FALSE,
                calls |-> <<>>, decremented |-> FALSE]
OtherIdle == [pc |-> "idle", user |-> Null, allQueries |-> <<>>, kw |-> KwIdle, kg |-> KgIdle,
              vec |-> VecIdle, ev |-> EvIdle, results |-> <<>>,
              usageCheck |-> UsageCheck(FALSE, "", NoUsage), useHeroPoints |-> FALSE]

Init ==
  /\ clerkUserId \in {User, Null}
  /\ toolRegistered \in BOOLEAN
  /\ pc = "start"
  /\ rephraseResp = NoResp
  /\ allQueries = <<>>
  /\ kw = KwIdle
  /\ kg = KgIdle
  /\ vec = VecIdle
  /\ ev = EvIdle
  /\ toolResults = <<>>
  /\ synth = SynthIdle
  /\ answer = NoAnswer
  /\ world = NominalWorld
  /\ h = HandlerIdle
  /\ other = OtherIdle
  /\ users = NoUsage

\* ------------------------------------------------------------ rephraseQuery
\* JSON.parse(content || '[]'), and [] when the call or the parse throws
rephraseQuery(resp) ==
  IF resp.kind = "throw" THEN JsArray(<<>>)
  ELSE LET parsed == JSONParse(resp, JsArray(<<>>))
       IN IF parsed.ok THEN parsed.val ELSE JsArray(<<>>)

\* ------------------------------------------------------------ keywordSearch
StoreCall(fn, name, user, doc) ==
  [fn |-> fn, search_entity_name |-> name, user_id |-> user, document_id |-> doc]
KeywordCall(q, user) ==
  [fn |-> "keyword_search_with_context", search_query |-> q, user_id |-> user,
   context_words |-> ContextWords]
Item(source, type, content, name, doc) ==
  [source |-> source, type |-> type, content |-> content, name |-> name, data_id |-> doc]
KeywordItem(row) == Item("keyword", "keyword", row.context_text, "", row.data_id)
KeywordAnswers == {Rows(KeywordRows), Rows(<<>>), StoreError, StoreNull, StoreThrow}
\* the rows mapped to results; [] on an error value or an exception
keywordSearch(resp) ==
  IF resp.kind \in {"throw", "error"} THEN <<>>
  ELSE [k \in 1..Len(resp.rows) |-> KeywordItem(resp.rows[k])]
KwStart(q, user) ==
  [pc |-> "wait", resp |-> NoResp, results |-> <<>>, calls |-> <<KeywordCall(q, user)>>]

\* ------------------------------------------------- extractEntitiesFromQuery
\* what the extraction completion parses to: an object with an entities
\* array, an object without the key, one whose entities is a number, or null
JsEntities(s) == [t |-> "entities", v |-> s]
JsBadEntities == [t |-> "badentities", v |-> <<>>]
JsNull == [t |-> "null", v |-> <<>>]
JsNumber == [t |-> "number", v |-> <<>>]
ExtractResponses ==
  {Throw, NoContent, BadJson, JsonOf(JsObject), JsonOf(JsNull), JsonOf(JsBadEntities)}
    \cup {JsonOf(JsEntities(s)) : s \in EntityLists}
\* mutant: a failed extraction falls back to the query as the only entity
extractEntitiesQueryFallback(resp) ==
  IF resp.kind = "throw" THEN JsArray(<<Query>>)
  ELSE LET parsed == JSONParse(resp, JsEntities(<<>>))
       IN IF ~parsed.ok THEN JsArray(<<Query>>)
          ELSE IF parsed.val.t = "entities" THEN JsArray(parsed.val.v)
          ELSE JsArray(<<>>)
extractEntitiesFromQuery(resp) ==
  IF resp.kind = "throw" THEN JsArray(<<>>)
  ELSE LET parsed == JSONParse(resp, JsEntities(<<>>))
       IN IF ~parsed.ok THEN JsArray(<<>>)
          ELSE IF parsed.val.t = "null" THEN JsArray(<<>>)
          ELSE IF parsed.val.t = "entities" THEN JsArray(parsed.val.v)
          ELSE IF parsed.val.t = "badentities" THEN JsNumber
          ELSE JsArray(<<>>)

\* ------------------------------------------------------ knowledgeGraphSearch
EntityItem(row) == Item("knowledge_graph", "entity", "Entity", row.entity_name, row.data_id)
RelationshipItem(row) ==
  Item("knowledge_graph", "relationship", "Relationship", row.subject, row.data_id)
RelatedItem(row) ==
  Item("knowledge_graph", "related_entity", "Related Entity", row.entity_name, row.data_id)
Pair(row) == [entity |-> row.entity_name, documentId |-> row.data_id]

KgStart == [KgIdle EXCEPT !.pc = "extract"]
\* return { results, entities: foundEntities, entitiesWithDocuments }
KgReturn(k) == [k EXCEPT !.pc = "done", !.i = 0, !.j = 0, !.rows = <<>>]
\* return { results: [], entities: [], entitiesWithDocuments: [] }
KgReturnEmpty(k) ==
  [KgReturn(k) EXCEPT !.results = <<>>, !.foundEntities = <<>>, !.entitiesWithDocuments = <<>>]
\* the loop head for entity i: rpc('search_knowledge_entities')
KgLookup(k, i, user) ==
  [k EXCEPT !.pc = "lookup", !.i = i, !.j = 0, !.rows = <<>>,
            !.calls = Append(@, StoreCall("search_knowledge_entities", k.extracted[i], user, AnyDoc))]
KgNextEntity(k, user) ==
  IF k.i < Len(k.extracted) THEN KgLookup(k, k.i + 1, user) ELSE KgReturn(k)
\* the inner loop body for match j up to its first await
KgMatch(k, rows, j, user) ==
  [k EXCEPT !.pc = "rel", !.rows = rows, !.j = j,
            !.foundEntities = Append(@, rows[j].entity_name),
            !.entitiesWithDocuments = Append(@, Pair(rows[j])),
            !.results = Append(@, EntityItem(rows[j])),
            !.calls = Append(@, StoreCall("search_knowledge_relationships",
                                          rows[j].entity_name, user, rows[j].data_id))]
KgAfterExtract(k, resp, user) ==
  LET extractedEntities == extractEntitiesFromQuery(resp)
      k1 == [k EXCEPT !.resp = resp]
  IN IF extractedEntities.t # "array" THEN KgReturnEmpty(k1)
     ELSE IF Len(extractedEntities.v) = 0 THEN KgReturnEmpty(k1)
     ELSE KgLookup([k1 EXCEPT !.extracted = extractedEntities.v], 1, user)
\* mutant: no try/catch around one entity, so an exception reaches the outer
\* catch and knowledgeGraphSearch returns its empty answer
KgAfterLookupAbort(k, resp, user) ==
  IF resp.kind = "throw" THEN KgReturnEmpty(k)
  ELSE IF resp.kind = "error" THEN KgNextEntity(k, user)
  ELSE IF Len(resp.rows) = 0 THEN KgNextEntity(k, user)
  ELSE KgMatch(k, resp.rows, 1, user)
KgAfterLookup(k, resp, user) ==
  IF resp.kind \in {"throw", "error"} THEN KgNextEntity(k, user)
  ELSE IF Len(resp.rows) = 0 THEN KgNextEntity(k, user)
  ELSE KgMatch(k, resp.rows, 1, user)
\* mutant: the catch takes back the pair of the match whose lookup threw
KgAfterRelationshipsDropPair(k, resp, user) ==
  IF resp.kind = "throw"
    THEN KgNextEntity([k EXCEPT !.entitiesWithDocuments = SubSeq(@, 1, Len(@) - 1)], user)
  ELSE [k EXCEPT !.pc = "related",
                 !.results = @ \o (IF resp.kind = "rows" THEN [n \in 1..Len(resp.rows) |-> RelationshipItem(resp.rows[n])]
                                   ELSE <<>>),
                 !.calls = Append(@, StoreCall("get_related_entities",
                                               k.rows[k.j].entity_name, user, k.rows[k.j].data_id))]
KgAfterRelationships(k, resp, user) ==
  IF resp.kind = "throw" THEN KgNextEntity(k, user)
  ELSE [k EXCEPT !.pc = "related",
                 !.results = @ \o (IF resp.kind = "rows" THEN [n \in 1..Len(resp.rows) |-> RelationshipItem(resp.rows[n])]
                                   ELSE <<>>),
                 !.calls = Append(@, StoreCall("get_related_entities",
                                               k.rows[k.j].entity_name, user, k.rows[k.j].data_id))]
KgAfterRelated(k, resp, user) ==
  IF resp.kind = "throw" THEN KgNextEntity(k, user)
  ELSE LET k1 == [k EXCEPT !.results = @ \o (IF resp.kind = "rows"
                                             THEN [n \in 1..Len(resp.rows) |-> RelatedItem(resp.rows[n])] ELSE <<>>)]
       IN IF k.j < Len(k.rows) THEN KgMatch(k1, k.rows, k.j + 1, user)
          ELSE KgNextEntity(k1, user)
\* what the store may answer to a call whose corpus answer is rows
StoreAnswers(rows, faults) ==
  {Rows(rows)} \cup (IF faults < MaxKgFaults THEN StoreFaults ELSE {})
Faulted(k, resp) == [k EXCEPT !.faults = @ + (IF resp.kind = "rows" THEN 0 ELSE 1)]

\* ---------------------------------------- vectorSearch, searchEntitiesInVector
\* mutant: the tenant is the one the tool was first used with
IndexCallFirstTenant(concept, user, limit, doc) ==
  [concepts |-> concept, tenant |-> User, limit |-> limit, document_id |-> doc]
IndexCall(concept, user, limit, doc) ==
  [concepts |-> concept, tenant |-> user, limit |-> limit, document_id |-> doc]
VectorItem(q, doc) == Item("vector", "vector", "chunk", q, doc)
EntityVectorItem(e, doc) == Item("vector", "entity_vector", "chunk", e, doc)
\* mutant: the lookup for the next query is issued together with this one
VecQueryAhead(v, queries, i, user) ==
  [v EXCEPT !.pc = "query", !.i = i,
            !.calls = @ \o <<IndexCall(queries[i], user, VectorLimit, AnyDoc)>>
                        \o (IF i < Len(queries)
                              THEN <<IndexCall(queries[i + 1], user, VectorLimit, AnyDoc)>>
                              ELSE <<>>)]
VecQuery(v, queries, i, user) ==
  [v EXCEPT !.pc = "query", !.i = i,
            !.calls = Append(@, IndexCall(queries[i], user, VectorLimit, AnyDoc))]
VecStart(queries, user) ==
  IF Len(queries) = 0 THEN [VecIdle EXCEPT !.pc = "done"] ELSE VecQuery(VecIdle, queries, 1, user)
\* mutant: no try/catch around one query, so an exception reaches the outer
\* catch and vectorSearch returns []
VecAfterAbort(v, queries, resp, user) ==
  LET q == queries[v.i]
      v1 == [v EXCEPT !.allResults = @ \o (IF resp.kind = "hits"
                                           THEN [k \in 1..Len(resp.docs) |-> VectorItem(q, resp.docs[k])]
                                           ELSE <<>>)]
  IN IF resp.kind = "throw"
       THEN [VecIdle EXCEPT !.pc = "done", !.calls = v.calls, !.failed = v.failed + 1]
     ELSE IF v.i < Len(queries) THEN VecQuery(v1, queries, v.i + 1, user)
     ELSE [v1 EXCEPT !.pc = "done", !.i = 0]
VecAfter(v, queries, resp, user) ==
  LET q == queries[v.i]
      v1 == [v EXCEPT !.allResults = @ \o (IF resp.kind = "hits"
                                           THEN [k \in 1..Len(resp.docs) |-> VectorItem(q, resp.docs[k])]
                                           ELSE <<>>),
                      !.failed = @ + (IF resp.kind = "throw" THEN 1 ELSE 0)]
  IN IF v.i < Len(queries) THEN VecQuery(v1, queries, v.i + 1, user)
     ELSE [v1 EXCEPT !.pc = "done", !.i = 0]
EvQuery(e, pairs, i, user) ==
  [e EXCEPT !.pc = "query", !.i = i,
            !.calls = Append(@, IndexCall(pairs[i].entity, user, EntityVectorLimit,
                                          pairs[i].documentId))]
EvStart(pairs, user) ==
  IF Len(pairs) = 0 THEN [EvIdle EXCEPT !.pc = "done"] ELSE EvQuery(EvIdle, pairs, 1, user)
\* mutant: no try/catch around one pair, so an exception ends the loop
EvAfterAbort(e, pairs, resp, user) ==
  LET p == pairs[e.i]
      e1 == [e EXCEPT !.results = @ \o (IF resp.kind = "hits"
                                        THEN [k \in 1..Len(resp.docs) |->
                                                EntityVectorItem(p.entity, resp.docs[k])]
                                        ELSE <<>>)]
  IN IF resp.kind = "throw" THEN [EvIdle EXCEPT !.pc = "done", !.calls = e.calls]
     ELSE IF e.i < Len(pairs) THEN EvQuery(e1, pairs, e.i + 1, user)
     ELSE [e1 EXCEPT !.pc = "done", !.i = 0]
\* mutant: after a lookup that threw, the pair that follows is passed over
EvAfterSkipNext(e, pairs, resp, user) ==
  LET p == pairs[e.i]
      e1 == [e EXCEPT !.results = @ \o (IF resp.kind = "hits"
                                        THEN [k \in 1..Len(resp.docs) |->
                                                EntityVectorItem(p.entity, resp.docs[k])]
                                        ELSE <<>>)]
      next == IF resp.kind = "throw" THEN e.i + 2 ELSE e.i + 1
  IN IF next <= Len(pairs) THEN EvQuery(e1, pairs, next, user)
     ELSE [e1 EXCEPT !.pc = "done", !.i = 0]
EvAfter(e, pairs, resp, user) ==
  LET p == pairs[e.i]
      e1 == [e EXCEPT !.results = @ \o (IF resp.kind = "hits"
                                        THEN [k \in 1..Len(resp.docs) |->
                                                EntityVectorItem(p.entity, resp.docs[k])]
                                        ELSE <<>>)]
  IN IF e.i < Len(pairs) THEN EvQuery(e1, pairs, e.i + 1, user)
     ELSE [e1 EXCEPT !.pc = "done", !.i = 0]

\* ------------------------------------------------------------------ execute
NoData == [present |-> FALSE, results |-> <<>>, queryVariations |-> <<>>, totalResults |-> 0,
           sources |-> [keyword |-> 0, knowledgeGraph |-> 0, vector |-> 0]]
\* mutant: the vector results spread before the knowledge-graph results
allResultsReordered(keywordResults, knowledgeGraphResults, vectorResults, entityVectorResults) ==
  keywordResults \o vectorResults \o knowledgeGraphResults \o entityVectorResults
\* Step 4: const allResults = [...keyword, ...knowledgeGraph.results, ...vector, ...entityVector]
allResults(keywordResults, knowledgeGraphResults, vectorResults, entityVectorResults) ==
  keywordResults \o knowledgeGraphResults \o vectorResults \o entityVectorResults
ExecuteData(queries, keywordResults, knowledgeGraphResults, vectorResults, entityVectorResults) ==
  LET all == allResults(keywordResults, knowledgeGraphResults, vectorResults, entityVectorResults)
  IN [present |-> TRUE, results |-> all, queryVariations |-> queries, totalResults |-> Len(all),
      sources |-> [keyword |-> Len(keywordResults),
                   knowledgeGraph |-> Len(knowledgeGraphResults),
                   vector |-> Len(vectorResults) + Len(entityVectorResults)]]
\* executeTools: one ToolResult, copied from what tool.execute returned
ToolResult(success, data, error) ==
  [tool |-> ToolName, success |-> success, data |-> data, error |-> error]
ExecuteFailed(error) == <<ToolResult(FALSE, NoData, error)>>
\* mutant: an execution that found nothing is reported as failed
ExecuteSucceededIfAny(e) ==
  LET data == ExecuteData(allQueries, kw.results, kg.results, vec.allResults, e.results)
  IN <<ToolResult(data.totalResults > 0, data, IF data.totalResults > 0 THEN "" ELSE "no results")>>
\* mutant: one outcome for each of the keyword, knowledge-graph and vector
\* searches instead of one for the tool
ExecuteSucceededPerSearch(e) ==
  LET data == ExecuteData(allQueries, kw.results, kg.results, vec.allResults, e.results)
  IN <<ToolResult(TRUE, data, ""), ToolResult(TRUE, data, ""), ToolResult(TRUE, data, "")>>
ExecuteSucceeded(e) ==
  <<ToolResult(TRUE, ExecuteData(allQueries, kw.results, kg.results, vec.allResults, e.results), "")>>

\* ------------------------------------------------------------------ Refiner
\* a JS number as an exact fraction in lowest terms
RECURSIVE GCD(_, _)
GCD(a, b) == IF b = 0 THEN a ELSE GCD(b, a % b)
Frac(n, d) == LET g == GCD(n, d) IN IF g = 0 THEN [num |-> 0, den |-> 1]
                                   ELSE [num |-> n \div g, den |-> d \div g]
Leq(x, y) == x.num * y.den <= y.num * x.den
\* mutant: Math.max for Math.min
MathMax(cap, x) == IF Leq(x, Frac(cap, 1)) THEN Frac(cap, 1) ELSE x
MathMin(cap, x) == IF Leq(x, Frac(cap, 1)) THEN x ELSE Frac(cap, 1)
Successful(results) == SelectSeq(results, LAMBDA r : r.success)
\* mutant: the rate of the failed results
calculateConfidenceOfFailures(results) ==
  LET successful == Len(Successful(results))
      total == Len(results)
      successRate == Frac((total - successful) * 100, total)
  IN IF total = 0 THEN Frac(0, 1)
     ELSE IF successful >= 3 THEN MathMin(Cap3, successRate)
     ELSE IF successful = 2 THEN MathMin(Cap2, successRate)
     ELSE IF successful = 1 THEN MathMin(Cap1, successRate)
     ELSE successRate
\* mutant: successful > 3 for successful >= 3
calculateConfidenceStrict(results) ==
  LET successful == Len(Successful(results))
      total == Len(results)
      successRate == Frac(successful * 100, total)
  IN IF total = 0 THEN Frac(0, 1)
     ELSE IF successful > 3 THEN MathMin(Cap3, successRate)
     ELSE IF successful = 2 THEN MathMin(Cap2, successRate)
     ELSE IF successful = 1 THEN MathMin(Cap1, successRate)
     ELSE successRate
calculateConfidence(results) ==
  LET successful == Len(Successful(results))
      total == Len(results)
      successRate == Frac(successful * 100, total)
  IN IF total = 0 THEN Frac(0, 1)
     ELSE IF successful >= 3 THEN MathMin(Cap3, successRate)
     ELSE IF successful = 2 THEN MathMin(Cap2, successRate)
     ELSE IF successful = 1 THEN MathMin(Cap1, successRate)
     ELSE successRate
\* the synthesis completion: an exception, no content, or a text
SynthThrow == [kind |-> "throw", text |-> ""]
SynthText(t) == [kind |-> "ok", text |-> t]
SynthResponses == {SynthThrow, SynthText(""), SynthText("answer")}
\* the messages of errors the completion call throws, and for each the
\* patterns of the handler's catch that it includes
SynthError(message) == [kind |-> "throw", text |-> message]
ErrorMessages ==
  {"429 You exceeded your current quota, please check your plan and billing details.",
   "401 Incorrect API key provided.",
   "connect ECONNREFUSED 127.0.0.1:443",
   "Request timed out.",
   "network timeout, status 403"}
Included(message) ==
  IF message = "429 You exceeded your current quota, please check your plan and billing details."
    THEN {"429", "quota"}
  ELSE IF message = "401 Incorrect API key provided." THEN {"401"}
  ELSE IF message = "connect ECONNREFUSED 127.0.0.1:443" THEN {"ECONNREFUSED"}
  ELSE IF message = "network timeout, status 403" THEN {"network", "timeout", "403"}
  ELSE {}
\* the prompt carries the tool name and data of the successful results
Prompt(results) ==
  LET successful == Successful(results)
  IN [n \in 1..Len(successful) |-> [tool |-> successful[n].tool, data |-> successful[n].data]]
Answer(content, confidence) == [content |-> content, confidence |-> confidence, set |-> TRUE]

\* ------------------------------------------------------------------ actions
searchVars == <<kw, kg, vec>>
refinerVars == <<synth, answer>>
inputVars == <<clerkUserId, toolRegistered, world, h, other, users>>
pipelineVars == <<pc, rephraseResp, allQueries, kw, kg, vec, ev, toolResults, synth, answer>>
requestVars == <<clerkUserId, toolRegistered, world, other, users>>

\* mutant: execute without its check of config.clerkUserId
ExecuteToolsUnchecked ==
  /\ pc = "start"
  /\ IF ~toolRegistered
       THEN toolResults' = ExecuteFailed("Tool not found") /\ pc' = "refine"
       ELSE toolResults' = toolResults /\ pc' = "rephrase"
  /\ UNCHANGED <<inputVars, rephraseResp, allQueries, searchVars, ev, refinerVars>>
\* Executor.executeTools up to the first await inside execute
ExecuteTools ==
  /\ pc = "start"
  /\ IF ~toolRegistered
       THEN toolResults' = ExecuteFailed("Tool not found") /\ pc' = "refine"
     ELSE IF clerkUserId = Null
       THEN toolResults' = ExecuteFailed(UserRequiredError) /\ pc' = "refine"
     ELSE toolResults' = toolResults /\ pc' = "rephrase"
  /\ UNCHANGED <<inputVars, rephraseResp, allQueries, searchVars, ev, refinerVars>>

\* the rephrase completion resolves; execute builds allQueries and starts
\* the three searches, each running up to its first await
RephraseResolve(resp) ==
  /\ pc = "rephrase"
  /\ rephraseResp' = resp
  /\ LET rephrased == rephraseQuery(resp)
     IN IF ~Iterable(rephrased)
          THEN /\ toolResults' = ExecuteFailed(NotIterableError)
               /\ pc' = "refine"
               /\ UNCHANGED <<allQueries, searchVars>>
          ELSE /\ allQueries' = <<Query>> \o rephrased.v
               /\ kw' = KwStart(Query, clerkUserId)
               /\ kg' = KgStart
               /\ vec' = VecStart(allQueries', clerkUserId)
               /\ pc' = "search"
               /\ UNCHANGED toolResults
  /\ UNCHANGED <<inputVars, ev, refinerVars>>

\* mutant: keywordSearch without its catch, so an exception rejects it, and
\* with it Promise.all and execute's try block
KeywordResolveRejects(resp) ==
  /\ pc = "search" /\ kw.pc = "wait"
  /\ IF resp.kind = "throw"
       THEN /\ kw' = [kw EXCEPT !.pc = "rejected", !.resp = resp]
            /\ toolResults' = ExecuteFailed("keyword store failed")
            /\ pc' = "refine"
       ELSE /\ kw' = [kw EXCEPT !.pc = "done", !.resp = resp, !.results = keywordSearch(resp)]
            /\ UNCHANGED <<pc, toolResults>>
  /\ UNCHANGED <<inputVars, rephraseResp, allQueries, kg, vec, ev, refinerVars>>

KeywordResolve(resp) ==
  /\ pc = "search" /\ kw.pc = "wait"
  /\ kw' = [kw EXCEPT !.pc = "done", !.resp = resp, !.results = keywordSearch(resp)]
  /\ UNCHANGED <<inputVars, pc, rephraseResp, allQueries, kg, vec, ev, toolResults, refinerVars>>

ExtractResolve(resp) ==
  /\ pc = "search" /\ kg.pc = "extract"
  /\ kg' = KgAfterExtract(kg, resp, clerkUserId)
  /\ UNCHANGED <<inputVars, pc, rephraseResp, allQueries, kw, vec, ev, toolResults, refinerVars>>

EntityLookupResolve(resp) ==
  /\ pc = "search" /\ kg.pc = "lookup"
  /\ kg' = Faulted(KgAfterLookup(kg, resp, clerkUserId), resp)
  /\ UNCHANGED <<inputVars, pc, rephraseResp, allQueries, kw, vec, ev, toolResults, refinerVars>>

RelationshipsResolve(resp) ==
  /\ pc = "search" /\ kg.pc = "rel"
  /\ kg' = Faulted(KgAfterRelationships(kg, resp, clerkUserId), resp)
  /\ UNCHANGED <<inputVars, pc, rephraseResp, allQueries, kw, vec, ev, toolResults, refinerVars>>

RelatedResolve(resp) ==
  /\ pc = "search" /\ kg.pc = "related"
  /\ kg' = Faulted(KgAfterRelated(kg, resp, clerkUserId), resp)
  /\ UNCHANGED <<inputVars, pc, rephraseResp, allQueries, kw, vec, ev, toolResults, refinerVars>>

\* mutant: vectorSearch pushes its hits onto the results array of
\* knowledgeGraphSearch instead of an array of its own
VectorResolveShared(resp) ==
  /\ pc = "search" /\ vec.pc = "query"
  /\ vec' = [VecAfter(vec, allQueries, resp, clerkUserId) EXCEPT !.allResults = <<>>]
  /\ kg' = [kg EXCEPT !.results = @ \o (IF resp.kind = "hits"
                                        THEN [k \in 1..Len(resp.docs) |->
                                                VectorItem(allQueries[vec.i], resp.docs[k])]
                                        ELSE <<>>)]
  /\ UNCHANGED <<inputVars, pc, rephraseResp, allQueries, kw, ev, toolResults, refinerVars>>

VectorResolve(resp) ==
  /\ pc = "search" /\ vec.pc = "query"
  /\ vec' = VecAfter(vec, allQueries, resp, clerkUserId)
  /\ UNCHANGED <<inputVars, pc, rephraseResp, allQueries, kw, kg, ev, toolResults, refinerVars>>

\* mutant: Step 3 chained on knowledgeGraphSearch alone
JoinAfterGraph ==
  /\ pc = "search" /\ kg.pc = "done"
  /\ ev' = EvStart(kg.entitiesWithDocuments, clerkUserId)
  /\ IF ev'.pc = "done"
       THEN toolResults' = ExecuteSucceeded(ev') /\ pc' = "refine"
       ELSE toolResults' = toolResults /\ pc' = "entityVector"
  /\ UNCHANGED <<inputVars, rephraseResp, allQueries, searchVars, refinerVars>>

\* Promise.all resolved: Step 3 starts, or with no pair returns [] at once
\* and execute returns
Join ==
  /\ pc = "search" /\ kw.pc = "done" /\ kg.pc = "done" /\ vec.pc = "done"
  /\ ev' = EvStart(kg.entitiesWithDocuments, clerkUserId)
  /\ IF ev'.pc = "done"
       THEN toolResults' = ExecuteSucceeded(ev') /\ pc' = "refine"
       ELSE toolResults' = toolResults /\ pc' = "entityVector"
  /\ UNCHANGED <<inputVars, rephraseResp, allQueries, searchVars, refinerVars>>

EntityVectorResolve(resp) ==
  /\ pc = "entityVector" /\ ev.pc = "query"
  /\ ev' = EvAfter(ev, kg.entitiesWithDocuments, resp, clerkUserId)
  /\ IF ev'.pc = "done"
       THEN toolResults' = ExecuteSucceeded(ev') /\ pc' = "refine"
       ELSE toolResults' = toolResults /\ pc' = "entityVector"
  /\ UNCHANGED <<inputVars, rephraseResp, allQueries, searchVars, refinerVars>>

\* Refiner.refineResults up to its return or its await
RefineResults ==
  /\ pc = "refine"
  /\ IF Len(Successful(toolResults)) = 0
       THEN /\ answer' = Answer(NotFoundMessage, Frac(0, 1))
            /\ pc' = "done"
            /\ UNCHANGED synth
       ELSE /\ synth' = [synth EXCEPT !.calls = @ + 1, !.prompt = Prompt(toolResults)]
            /\ pc' = "synth"
            /\ UNCHANGED answer
  /\ UNCHANGED <<inputVars, rephraseResp, allQueries, searchVars, ev, toolResults>>

\* mutant: the confidence is computed over the successful results only
SynthResolveOverSuccessful(resp) ==
  /\ pc = "synth"
  /\ synth' = [synth EXCEPT !.resp = resp]
  /\ IF resp.kind = "throw"
       THEN pc' = "threw" /\ UNCHANGED answer
       ELSE /\ answer' = Answer(IF resp.text = "" THEN UnableMessage ELSE resp.text,
                                calculateConfidence(Successful(toolResults)))
            /\ pc' = "done"
  /\ UNCHANGED <<inputVars, rephraseResp, allQueries, searchVars, ev, toolResults>>

\* the synthesis completion resolves; an exception leaves refineResults
SynthResolve(resp) ==
  /\ pc = "synth"
  /\ synth' = [synth EXCEPT !.resp = resp]
  /\ IF resp.kind = "throw"
       THEN pc' = "threw" /\ UNCHANGED answer
       ELSE /\ answer' = Answer(IF resp.text = "" THEN UnableMessage ELSE resp.text,
                                calculateConfidence(toolResults))
            /\ pc' = "done"
  /\ UNCHANGED <<inputVars, rephraseResp, allQueries, searchVars, ev, toolResults>>

\* what the collaborators may answer to the call in flight
Next ==
  \/ ExecuteTools
  \/ \E resp \in RephraseResponses : RephraseResolve(resp)
  \/ \E resp \in KeywordAnswers : KeywordResolve(resp)
  \/ \E resp \in ExtractResponses : ExtractResolve(resp)
  \/ \E c \in Awaited(kg, {"lookup"}) :
       \E resp \in StoreAnswers(EntityRows(c.search_entity_name), kg.faults) :
         EntityLookupResolve(resp)
  \/ \E c \in Awaited(kg, {"rel"}) :
       \E resp \in StoreAnswers(RelationshipRows(c.search_entity_name, c.document_id), kg.faults) :
         RelationshipsResolve(resp)
  \/ \E c \in Awaited(kg, {"related"}) :
       \E resp \in StoreAnswers(RelatedRows(c.search_entity_name, c.document_id), kg.faults) :
         RelatedResolve(resp)
  \/ \E c \in Awaited(vec, {"query"}) :
       \E resp \in IndexAnswers(c.concepts, c.limit, c.document_id) : VectorResolve(resp)
  \/ \E c \in Awaited(ev, {"query"}) :
       \E resp \in IndexAnswers(c.concepts, c.limit, c.document_id) : EntityVectorResolve(resp)
  \/ Join
  \/ RefineResults
  \/ \E resp \in SynthResponses : SynthResolve(resp)

Spec == Init /\ [][Next]_vars

\* The refiner on its own, for any list of tool results
RefinerInputs ==
  UNION {[1..n -> {ToolResult(TRUE, NoData, ""), ToolResult(FALSE, NoData, "failed")}] :
           n \in 0..MaxTools}
InitRefiner ==
  /\ clerkUserId = User
  /\ toolRegistered = TRUE
  /\ pc = "refine"
  /\ rephraseResp = NoResp
  /\ allQueries = <<>>
  /\ kw = KwIdle
  /\ kg = KgIdle
  /\ vec = VecIdle
  /\ ev = EvIdle
  /\ toolResults \in RefinerInputs
  /\ synth = SynthIdle
  /\ answer = NoAnswer
  /\ world = NominalWorld
  /\ h = HandlerIdle
  /\ other = OtherIdle
  /\ users = NoUsage
NextRefiner ==
  \/ RefineResults
  \/ \E resp \in SynthResponses : SynthResolve(resp)
SpecRefiner == InitRefiner /\ [][NextRefiner]_vars

\* --------------------------------------------- collaborators as functions
\* The store and the index keep one partition per user; a call is answered
\* from the partition its user_id / tenant names.
OtherUser == "u2"
TenantDoc(u, d) ==
  IF u = User THEN d ELSE IF d = "d1" THEN "x1" ELSE IF d = "d2" THEN "x2" ELSE d
BaseDoc(d) == IF d = "x1" THEN "d1" ELSE IF d = "x2" THEN "d2" ELSE d
DocsOf(u) == {TenantDoc(u, "d1"), TenantDoc(u, "d2")}
InTenant(u, rows) == [n \in 1..Len(rows) |-> [rows[n] EXCEPT !.data_id = TenantDoc(u, @)]]
\* the rows the store holds for an rpc, by its parameters
StoreRowsFor(call) ==
  LET u == call.user_id
      own == IF call.document_id \in DocsOf(u) THEN BaseDoc(call.document_id) ELSE "none"
  IN IF call.fn = "keyword_search_with_context" THEN InTenant(u, KeywordRows)
     ELSE IF call.fn = "search_knowledge_entities"
       THEN InTenant(u, EntityRows(call.search_entity_name))
     ELSE IF call.fn = "search_knowledge_relationships"
       THEN InTenant(u, RelationshipRows(call.search_entity_name, own))
     ELSE InTenant(u, RelatedRows(call.search_entity_name, own))
\* the documents the index returns for a nearText query, by its parameters
IndexDocsFor(call) ==
  LET ranked == IndexDocs(call.concepts)
      docs == [n \in 1..Len(ranked) |-> TenantDoc(call.tenant, ranked[n])]
  IN Take(Keep(docs, call.document_id), call.limit)
FaultAnswer(kind) ==
  IF kind = "error" THEN StoreError ELSE IF kind = "null" THEN StoreNull ELSE StoreThrow
\* a world fixes the answer to every call: the rephrase and extraction
\* completions, whether the keyword rpc works, one knowledge-graph rpc that
\* deviates, the concepts whose index lookup throws, the synthesis
\* completion, and one call of one search that never resolves
WorldStore(w, call) ==
  IF call.fn = "keyword_search_with_context"
    THEN IF w.keyword = "rows" THEN Rows(StoreRowsFor(call)) ELSE FaultAnswer(w.keyword)
  ELSE IF /\ w.fault.fn = call.fn
          /\ w.fault.name = call.search_entity_name
          /\ w.fault.doc = BaseDoc(call.document_id)
    THEN FaultAnswer(w.fault.kind)
  ELSE Rows(StoreRowsFor(call))
WorldIndex(w, call) ==
  IF call.concepts \in w.indexDown THEN IndexThrow ELSE Hits(IndexDocsFor(call))
WorldSynth(w) ==
  IF w.synth = "throw" THEN SynthThrow
  ELSE IF w.synth \in ErrorMessages THEN SynthError(w.synth)
  ELSE SynthText(w.synth)
\* the issued-th call of who is the one that never resolves
Stalled(w, who, issued) == w.stall.who = who /\ w.stall.at = issued

\* one request in a fixed world: only the order of the steps is open
NextFixed ==
  \/ ExecuteTools
  \/ ~Stalled(world, "rephrase", 1) /\ RephraseResolve(world.rephrase)
  \/ \E c \in Awaited(kw, {"wait"}) :
       ~Stalled(world, "kw", Len(kw.calls)) /\ KeywordResolve(WorldStore(world, c))
  \/ ~Stalled(world, "kg", 1) /\ ExtractResolve(world.extract)
  \/ \E c \in Awaited(kg, {"lookup"}) :
       ~Stalled(world, "kg", Len(kg.calls) + 1) /\ EntityLookupResolve(WorldStore(world, c))
  \/ \E c \in Awaited(kg, {"rel"}) :
       ~Stalled(world, "kg", Len(kg.calls) + 1) /\ RelationshipsResolve(WorldStore(world, c))
  \/ \E c \in Awaited(kg, {"related"}) :
       ~Stalled(world, "kg", Len(kg.calls) + 1) /\ RelatedResolve(WorldStore(world, c))
  \/ \E c \in Awaited(vec, {"query"}) :
       ~Stalled(world, "vec", Len(vec.calls)) /\ VectorResolve(WorldIndex(world, c))
  \/ \E c \in Awaited(ev, {"query"}) :
       ~Stalled(world, "ev", Len(ev.calls)) /\ EntityVectorResolve(WorldIndex(world, c))
  \/ Join
  \/ RefineResults
  \/ ~Stalled(world, "synth", 1) /\ SynthResolve(WorldSynth(world))
Worlds ==
  [rephrase : {JsonOf(JsArray(<<>>)), JsonOf(JsArray(<<Rephrasing(1)>>))},
   keyword : {"rows", "throw"},
   extract : {Throw, JsonOf(JsEntities(<<"e2">>)), JsonOf(JsEntities(<<"e1", "e2">>))},
   fault : {NominalWorld.fault,
            [fn |-> "search_knowledge_entities", name |-> "e1", doc |-> AnyDoc, kind |-> "error"],
            [fn |-> "search_knowledge_relationships", name |-> "e1", doc |-> "d1", kind |-> "throw"],
            [fn |-> "get_related_entities", name |-> "e2", doc |-> "d1", kind |-> "null"]},
   indexDown : SUBSET {Query, Rephrasing(1), "e1"},
   synth : {"answer"},
   stall : {NominalWorld.stall}]
InitFixed ==
  /\ clerkUserId = User
  /\ toolRegistered = TRUE
  /\ pc = "start"
  /\ rephraseResp = NoResp
  /\ allQueries = <<>>
  /\ kw = KwIdle
  /\ kg = KgIdle
  /\ vec = VecIdle
  /\ ev = EvIdle
  /\ toolResults = <<>>
  /\ synth = SynthIdle
  /\ answer = NoAnswer
  /\ world \in Worlds
  /\ h = HandlerIdle
  /\ other = OtherIdle
  /\ users = NoUsage
SpecFixed == InitFixed /\ [][NextFixed]_vars

\* Worlds in which one call may never resolve.  No timer or cancellation
\* exists in execute or refineResults, so such a call is awaited for ever;
\* every other call resolves and every continuation runs (weak fairness).
StallWorlds ==
  [rephrase : {JsonOf(JsArray(<<>>)), JsonOf(JsArray(<<Rephrasing(1)>>))},
   keyword : {"rows", "throw"},
   extract : {Throw, JsonOf(JsEntities(<<"e2">>))},
   fault : {NominalWorld.fault},
   indexDown : {{}, {Query}},
   synth : {"answer", "throw"},
   stall : {NominalWorld.stall, [who |-> "rephrase", at |-> 1], [who |-> "kw", at |-> 1],
            [who |-> "kg", at |-> 1], [who |-> "kg", at |-> 2], [who |-> "kg", at |-> 3],
            [who |-> "vec", at |-> 1], [who |-> "vec", at |-> 2], [who |-> "ev", at |-> 1],
            [who |-> "synth", at |-> 1]}]
InitStall ==
  /\ clerkUserId = User
  /\ toolRegistered = TRUE
  /\ pc = "start"
  /\ rephraseResp = NoResp
  /\ allQueries = <<>>
  /\ kw = KwIdle
  /\ kg = KgIdle
  /\ vec = VecIdle
  /\ ev = EvIdle
  /\ toolResults = <<>>
  /\ synth = SynthIdle
  /\ answer = NoAnswer
  /\ world \in StallWorlds
  /\ h = HandlerIdle
  /\ other = OtherIdle
  /\ users = NoUsage
SpecStall == InitStall /\ [][NextFixed]_vars /\ WF_vars(NextFixed)

\* ------------------------------------------- two requests, two users
\* The tool is one object serving every request; execute keeps the user id
\* and all accumulators in parameters and locals.  The second request runs
\* the same code on its own copy of them.
\* knowledgeGraphSearch: the awaited call resolves as the world answers it
KgStep(k, w, user) ==
  IF k.pc = "extract" THEN KgAfterExtract(k, w.extract, user)
  ELSE LET resp == WorldStore(w, Last(k.calls))
       IN IF k.pc = "lookup" THEN Faulted(KgAfterLookup(k, resp, user), resp)
          ELSE IF k.pc = "rel" THEN Faulted(KgAfterRelationships(k, resp, user), resp)
          ELSE Faulted(KgAfterRelated(k, resp, user), resp)

OtherExecute ==
  /\ other.pc = "start"
  /\ other' = [other EXCEPT !.pc = IF other.user = Null THEN "failed" ELSE "rephrase"]
  /\ UNCHANGED <<clerkUserId, toolRegistered, world, users, h, pipelineVars>>

OtherRephraseResolve(resp) ==
  /\ other.pc = "rephrase"
  /\ LET rephrased == rephraseQuery(resp)
         queries == <<Query>> \o rephrased.v
     IN IF ~Iterable(rephrased)
          THEN other' = [other EXCEPT !.pc = "failed"]
          ELSE other' = [other EXCEPT !.pc = "search", !.allQueries = queries,
                                      !.kw = KwStart(Query, other.user),
                                      !.kg = KgStart,
                                      !.vec = VecStart(queries, other.user)]
  /\ UNCHANGED <<clerkUserId, toolRegistered, world, users, h, pipelineVars>>

OtherKeywordResolve(resp) ==
  /\ other.pc = "search" /\ other.kw.pc = "wait"
  /\ other' = [other EXCEPT !.kw = [@ EXCEPT !.pc = "done", !.resp = resp,
                                             !.results = keywordSearch(resp)]]
  /\ UNCHANGED <<clerkUserId, toolRegistered, world, users, h, pipelineVars>>

OtherGraphResolve ==
  /\ other.pc = "search" /\ other.kg.pc \in {"extract", "lookup", "rel", "related"}
  /\ other' = [other EXCEPT !.kg = KgStep(other.kg, world, other.user)]
  /\ UNCHANGED <<clerkUserId, toolRegistered, world, users, h, pipelineVars>>

OtherVectorResolve(resp) ==
  /\ other.pc = "search" /\ other.vec.pc = "query"
  /\ other' = [other EXCEPT !.vec = VecAfter(other.vec, other.allQueries, resp, other.user)]
  /\ UNCHANGED <<clerkUserId, toolRegistered, world, users, h, pipelineVars>>

OtherResults(o, e) == allResults(o.kw.results, o.kg.results, o.vec.allResults, e.results)
OtherJoin ==
  /\ other.pc = "search"
  /\ other.kw.pc = "done" /\ other.kg.pc = "done" /\ other.vec.pc = "done"
  /\ LET e == EvStart(other.kg.entitiesWithDocuments, other.user)
     IN other' = IF e.pc = "done"
                   THEN [other EXCEPT !.ev = e, !.pc = "returned", !.results = OtherResults(other, e)]
                   ELSE [other EXCEPT !.ev = e, !.pc = "entityVector"]
  /\ UNCHANGED <<clerkUserId, toolRegistered, world, users, h, pipelineVars>>

OtherEntityVectorResolve(resp) ==
  /\ other.pc = "entityVector" /\ other.ev.pc = "query"
  /\ LET e == EvAfter(other.ev, other.kg.entitiesWithDocuments, resp, other.user)
     IN other' = IF e.pc = "done"
                   THEN [other EXCEPT !.ev = e, !.pc = "returned", !.results = OtherResults(other, e)]
                   ELSE [other EXCEPT !.ev = e]
  /\ UNCHANGED <<clerkUserId, toolRegistered, world, users, h, pipelineVars>>

TwoUserWorlds ==
  [rephrase : {JsonOf(JsArray(<<Rephrasing(1)>>))},
   keyword : {"rows"},
   extract : {JsonOf(JsEntities(<<"e2">>)), JsonOf(JsEntities(<<"e1", "e2">>))},
   fault : {NominalWorld.fault},
   indexDown : {{}, {"e2"}},
   synth : {"answer"},
   stall : {NominalWorld.stall}]
InitTwoUsers ==
  /\ clerkUserId = User
  /\ toolRegistered = TRUE
  /\ pc = "start"
  /\ rephraseResp = NoResp
  /\ allQueries = <<>>
  /\ kw = KwIdle
  /\ kg = KgIdle
  /\ vec = VecIdle
  /\ ev = EvIdle
  /\ toolResults = <<>>
  /\ synth = SynthIdle
  /\ answer = NoAnswer
  /\ world \in TwoUserWorlds
  /\ h = HandlerIdle
  /\ other = [OtherIdle EXCEPT !.pc = "start", !.user = OtherUser]
  /\ users = NoUsage
NextTwoUsers ==
  \/ ExecuteTools
  \/ RephraseResolve(world.rephrase)
  \/ \E c \in Awaited(kw, {"wait"}) : KeywordResolve(WorldStore(world, c))
  \/ ExtractResolve(world.extract)
  \/ \E c \in Awaited(kg, {"lookup"}) : EntityLookupResolve(WorldStore(world, c))
  \/ \E c \in Awaited(kg, {"rel"}) : RelationshipsResolve(WorldStore(world, c))
  \/ \E c \in Awaited(kg, {"related"}) : RelatedResolve(WorldStore(world, c))
  \/ \E c \in Awaited(vec, {"query"}) : VectorResolve(WorldIndex(world, c))
  \/ \E c \in Awaited(ev, {"query"}) : EntityVectorResolve(WorldIndex(world, c))
  \/ Join
  \/ OtherExecute
  \/ OtherRephraseResolve(world.rephrase)
  \/ \E c \in Awaited(other.kw, {"wait"}) : OtherKeywordResolve(WorldStore(world, c))
  \/ OtherGraphResolve
  \/ \E c \in Awaited(other.vec, {"query"}) : OtherVectorResolve(WorldIndex(world, c))
  \/ \E c \in Awaited(other.ev, {"query"}) : OtherEntityVectorResolve(WorldIndex(world, c))
  \/ OtherJoin
SpecTwoUsers == InitTwoUsers /\ [][NextTwoUsers]_vars

\* ------------------------------------------------ the context_finder handler
\* every fixed text the handler answers with
Messages ==
  [authRequired |-> "Error: User authentication required. Please ensure you are properly authenticated.",
   usageUnverified |-> "Unable to verify your usage limits. Please try again.",
   userNotFound |-> "User account not found. Please contact support.",
   dailyLimit |-> "You have used all your requests for today. Your daily limit will reset tomorrow, or you can use Hero Points if available.",
   monthlyLimit |-> "You have used your monthly request limit. Please upgrade your plan for more requests or wait until next month.",
   usageFallback |-> "Unable to process your request. Please contact support.",
   usageDefault |-> "Usage limit exceeded. Please try again later.",
   generic |-> "Something went wrong. Please try again later.",
   busy |-> "Our AI service is currently busy. Please try again in a few minutes.",
   connection |-> "Connection issue detected. Please try again later."]

\* what the users lookup may answer
UsageResponses ==
  {UsageRow(k, 0, 0, 0) : k \in {"error", "nodata", "throw"}}
    \cup {UsageRow("row", t, m, p) : t \in -1..MaxQuota, m \in -1..MaxQuota, p \in -1..MaxQuota}
checkUsageLimit(resp) ==
  IF resp.kind \in {"error", "throw"} THEN UsageCheck(FALSE, Messages.usageUnverified, NoUsage)
  ELSE IF resp.kind = "nodata" THEN UsageCheck(FALSE, Messages.userNotFound, NoUsage)
  ELSE IF resp.today > 0 \/ resp.hero > 0 THEN UsageCheck(TRUE, "", resp)
  ELSE IF resp.today = 0 /\ resp.month > 0 THEN UsageCheck(FALSE, Messages.dailyLimit, resp)
  ELSE IF resp.month = 0 THEN UsageCheck(FALSE, Messages.monthlyLimit, resp)
  ELSE UsageCheck(FALSE, Messages.usageFallback, resp)
\* the handler's catch: the user message for an error message
userMessage(message) ==
  LET has == Included(message)
  IN IF has \cap {"429", "rate limit", "quota", "Request too large", "tokens per min"} # {}
       THEN Messages.busy
     ELSE IF has \cap {"401", "403", "unauthorized"} # {} THEN Messages.generic
     ELSE IF has \cap {"ECONNREFUSED", "network", "timeout"} # {} THEN Messages.connection
     ELSE Messages.generic
UsageCall(fn, user, arg) == [fn |-> fn, clerk_user_id |-> user, arg |-> arg]

\* the handler up to its early return or the await of checkUsageLimit
HandlerStart ==
  /\ h.pc = "start"
  /\ IF clerkUserId = Null
       THEN h' = [h EXCEPT !.pc = "returned", !.text = Messages.authRequired]
       ELSE h' = [h EXCEPT !.pc = "usage",
                           !.calls = Append(@, UsageCall("users.select", clerkUserId, ""))]
  /\ UNCHANGED <<requestVars, pipelineVars>>

\* mutant: a usage lookup that failed lets the request through
UsageResolveFailOpen(resp) ==
  /\ h.pc = "usage"
  /\ LET usageCheck == checkUsageLimit(resp)
     IN IF ~usageCheck.canProceed /\ resp.kind \notin {"error", "throw"}
          THEN /\ h' = [h EXCEPT !.pc = "returned", !.usageCheck = usageCheck,
                                 !.text = IF usageCheck.message = "" THEN Messages.usageDefault
                                          ELSE usageCheck.message]
               /\ UNCHANGED pc
          ELSE /\ h' = [h EXCEPT !.pc = "pipeline", !.usageCheck = usageCheck]
               /\ pc' = "start"
  /\ UNCHANGED <<requestVars, rephraseResp, allQueries, kw, kg, vec, ev, toolResults, synth, answer>>
\* checkUsageLimit resolves: the limit message, or on to executeTools
UsageResolve(resp) ==
  /\ h.pc = "usage"
  /\ LET usageCheck == checkUsageLimit(resp)
     IN IF ~usageCheck.canProceed
          THEN /\ h' = [h EXCEPT !.pc = "returned", !.usageCheck = usageCheck,
                                 !.text = IF usageCheck.message = "" THEN Messages.usageDefault
                                          ELSE usageCheck.message]
               /\ UNCHANGED pc
          ELSE /\ h' = [h EXCEPT !.pc = "pipeline", !.usageCheck = usageCheck]
               /\ pc' = "start"
  /\ UNCHANGED <<requestVars, rephraseResp, allQueries, kw, kg, vec, ev, toolResults, synth, answer>>

\* refineResults returned: the handler awaits trackUsage
HandlerTrack ==
  /\ h.pc = "pipeline" /\ pc = "done"
  /\ h' = [h EXCEPT !.pc = "track",
                    !.calls = Append(@, UsageCall("requests.insert", clerkUserId, "context_finder"))]
  /\ UNCHANGED <<requestVars, pipelineVars>>

\* trackUsage resolves, whatever the insert did: the handler awaits decrementUsage
TrackResolve(resp) ==
  /\ h.pc = "track"
  /\ h' = [h EXCEPT !.pc = "decrement",
                    !.calls = Append(@, UsageCall("decrement_usage", clerkUserId,
                                                   IF h.useHeroPoints THEN "hero" ELSE "daily"))]
  /\ UNCHANGED <<requestVars, pipelineVars>>

\* mutant: a decrement that did not succeed fails the request
DecrementResolveFailsRequest(resp) ==
  /\ h.pc = "decrement"
  /\ h' = [h EXCEPT !.pc = "returned", !.decremented = (resp = "rows"),
                    !.text = IF resp = "rows" THEN answer.content ELSE Messages.generic]
  /\ UNCHANGED <<requestVars, pipelineVars>>
\* decrementUsage resolves with true or false: the handler returns the content
DecrementResolve(resp) ==
  /\ h.pc = "decrement"
  /\ h' = [h EXCEPT !.pc = "returned", !.decremented = (resp = "rows"),
                    !.text = answer.content]
  /\ UNCHANGED <<requestVars, pipelineVars>>

\* mutant: the catch answers with the error's own message
HandlerCatchEcho ==
  /\ h.pc = "pipeline" /\ pc = "threw"
  /\ h' = [h EXCEPT !.pc = "returned", !.text = synth.resp.text]
  /\ UNCHANGED <<requestVars, pipelineVars>>

\* mutant: the catch answers rate-limit errors only and rethrows the others
HandlerCatchRethrow ==
  /\ h.pc = "pipeline" /\ pc = "threw"
  /\ h' = IF userMessage(synth.resp.text) = Messages.busy
            THEN [h EXCEPT !.pc = "returned", !.text = Messages.busy]
            ELSE [h EXCEPT !.pc = "threw"]
  /\ UNCHANGED <<requestVars, pipelineVars>>
\* refineResults raised: the outer catch answers with a user message
HandlerCatch ==
  /\ h.pc = "pipeline" /\ pc = "threw"
  /\ h' = [h EXCEPT !.pc = "returned", !.text = userMessage(synth.resp.text)]
  /\ UNCHANGED <<requestVars, pipelineVars>>

InitHandler ==
  /\ clerkUserId \in {User, Null}
  /\ toolRegistered \in BOOLEAN
  /\ pc = "idle"
  /\ rephraseResp = NoResp
  /\ allQueries = <<>>
  /\ kw = KwIdle
  /\ kg = KgIdle
  /\ vec = VecIdle
  /\ ev = EvIdle
  /\ toolResults = <<>>
  /\ synth = SynthIdle
  /\ answer = NoAnswer
  /\ world = NominalWorld
  /\ h \in {[HandlerIdle EXCEPT !.pc = "start", !.useHeroPoints = b] : b \in BOOLEAN}
  /\ other = OtherIdle
  /\ users = NoUsage
NextHandler ==
  \/ HandlerStart
  \/ \E resp \in UsageResponses : UsageResolve(resp)
  \/ ExecuteTools
  \/ \E resp \in {Throw, JsonOf(JsObject), JsonOf(JsArray(<<>>))} : RephraseResolve(resp)
  \/ \E c \in Awaited(kw, {"wait"}) :
       \E resp \in {Rows(StoreRowsFor(c)), StoreError, StoreThrow} : KeywordResolve(resp)
  \/ \E resp \in {Throw, JsonOf(JsEntities(<<"e2">>))} : ExtractResolve(resp)
  \/ \E c \in Awaited(kg, {"lookup"}) :
       \E resp \in StoreAnswers(StoreRowsFor(c), kg.faults) \ {StoreError, StoreNull} :
         EntityLookupResolve(resp)
  \/ \E c \in Awaited(kg, {"rel"}) :
       \E resp \in StoreAnswers(StoreRowsFor(c), kg.faults) \ {StoreError, StoreNull} :
         RelationshipsResolve(resp)
  \/ \E c \in Awaited(kg, {"related"}) :
       \E resp \in StoreAnswers(StoreRowsFor(c), kg.faults) \ {StoreError, StoreNull} :
         RelatedResolve(resp)
  \/ \E c \in Awaited(vec, {"query"}) :
       \E resp \in {Hits(IndexDocsFor(c)), IndexThrow} : VectorResolve(resp)
  \/ \E c \in Awaited(ev, {"query"}) :
       \E resp \in {Hits(IndexDocsFor(c)), IndexThrow} : EntityVectorResolve(resp)
  \/ Join
  \/ RefineResults
  \/ \E resp \in SynthResponses \cup {SynthError(m) : m \in ErrorMessages} : SynthResolve(resp)
  \/ HandlerTrack
  \/ \E resp \in {"ok", "throw"} : TrackResolve(resp)
  \/ \E resp \in {"rows", "error", "nodata", "throw"} : DecrementResolve(resp)
  \/ HandlerCatch
SpecHandler == InitHandler /\ [][NextHandler]_vars

\* a request that enters at the handler, or at executeTools directly
SpecEntry == (InitHandler \/ Init) /\ [][NextHandler]_vars

\* ------------------------------------------- two requests, one user
\* Two requests of the same user are served at once, each by its own run of
\* the handler; both read and write the user's row of the users table.
\* decrement_usage is a function of the database, called by name; as used
\* here it takes one from the counter the flag names and returns the row,
\* or returns no row when that counter has nothing left.
DecrementRow(row, useHeroPoints) ==
  IF useHeroPoints THEN [row EXCEPT !.hero = @ - 1] ELSE [row EXCEPT !.today = @ - 1]
DecrementAnswers(row, useHeroPoints) ==
  {"error", "nodata", "throw"}
    \cup (IF (IF useHeroPoints THEN row.hero ELSE row.today) > 0 THEN {"rows"} ELSE {})

\* decrementUsage of the first request resolves on the shared row
SharedDecrementResolve(resp) ==
  /\ h.pc = "decrement"
  /\ h' = [h EXCEPT !.pc = "returned", !.decremented = (resp = "rows"),
                    !.text = answer.content]
  /\ users' = IF resp = "rows" THEN DecrementRow(users, h.useHeroPoints) ELSE users
  /\ UNCHANGED <<clerkUserId, toolRegistered, world, other, pipelineVars>>

\* the second request: the handler up to the await of checkUsageLimit
OtherHandlerStart ==
  /\ other.pc = "handler"
  /\ other' = [other EXCEPT !.pc = IF other.user = Null THEN "answered" ELSE "usage"]
  /\ UNCHANGED <<clerkUserId, toolRegistered, world, users, h, pipelineVars>>

OtherUsageResolve(resp) ==
  /\ other.pc = "usage"
  /\ LET usageCheck == checkUsageLimit(resp)
     IN other' = [other EXCEPT !.usageCheck = usageCheck,
                               !.pc = IF usageCheck.canProceed THEN "start" ELSE "answered"]
  /\ UNCHANGED <<clerkUserId, toolRegistered, world, users, h, pipelineVars>>

\* execute returned: refineResults, whose synthesis call may raise into the
\* handler's catch; otherwise the handler awaits trackUsage
OtherRefineResolve(resp) ==
  /\ other.pc \in {"returned", "failed"}
  /\ other' = [other EXCEPT !.pc = IF other.pc = "returned" /\ resp.kind = "throw"
                                     THEN "answered" ELSE "track"]
  /\ UNCHANGED <<clerkUserId, toolRegistered, world, users, h, pipelineVars>>

OtherTrackResolve ==
  /\ other.pc = "track"
  /\ other' = [other EXCEPT !.pc = "decrement"]
  /\ UNCHANGED <<clerkUserId, toolRegistered, world, users, h, pipelineVars>>

OtherDecrementResolve(resp) ==
  /\ other.pc = "decrement"
  /\ other' = [other EXCEPT !.pc = "answered"]
  /\ users' = IF resp = "rows" THEN DecrementRow(users, other.useHeroPoints) ELSE users
  /\ UNCHANGED <<clerkUserId, toolRegistered, world, h, pipelineVars>>

InitSameUser ==
  /\ clerkUserId = User
  /\ toolRegistered = TRUE
  /\ pc = "idle"
  /\ rephraseResp = NoResp
  /\ allQueries = <<>>
  /\ kw = KwIdle
  /\ kg = KgIdle
  /\ vec = VecIdle
  /\ ev = EvIdle
  /\ toolResults = <<>>
  /\ synth = SynthIdle
  /\ answer = NoAnswer
  /\ world \in {[NominalWorld EXCEPT !.extract = JsonOf(JsEntities(<<"e2">>)), !.synth = s] :
                  s \in {"answer", "throw"}}
  /\ h \in {[HandlerIdle EXCEPT !.pc = "start", !.useHeroPoints = b] : b \in BOOLEAN}
  /\ other \in {[OtherIdle EXCEPT !.pc = "handler", !.user = User, !.useHeroPoints = b] :
                  b \in BOOLEAN}
  /\ users \in {UsageRow("row", t, m, p) : t \in 0..MaxQuota, m \in 0..MaxQuota, p \in 0..MaxQuota}
NextSameUser ==
  \/ HandlerStart
  \/ \E resp \in {users, UsageRow("error", 0, 0, 0)} : UsageResolve(resp)
  \/ ExecuteTools
  \/ RephraseResolve(world.rephrase)
  \/ \E c \in Awaited(kw, {"wait"}) : KeywordResolve(WorldStore(world, c))
  \/ ExtractResolve(world.extract)
  \/ \E c \in Awaited(kg, {"lookup"}) : EntityLookupResolve(WorldStore(world, c))
  \/ \E c \in Awaited(kg, {"rel"}) : RelationshipsResolve(WorldStore(world, c))
  \/ \E c \in Awaited(kg, {"related"}) : RelatedResolve(WorldStore(world, c))
  \/ \E c \in Awaited(vec, {"query"}) : VectorResolve(WorldIndex(world, c))
  \/ \E c \in Awaited(ev, {"query"}) : EntityVectorResolve(WorldIndex(world, c))
  \/ Join
  \/ RefineResults
  \/ SynthResolve(WorldSynth(world))
  \/ HandlerTrack
  \/ \E resp \in {"ok", "throw"} : TrackResolve(resp)
  \/ \E resp \in DecrementAnswers(users, h.useHeroPoints) : SharedDecrementResolve(resp)
  \/ HandlerCatch
  \/ OtherHandlerStart
  \/ \E resp \in {users, UsageRow("error", 0, 0, 0)} : OtherUsageResolve(resp)
  \/ OtherExecute
  \/ OtherRephraseResolve(world.rephrase)
  \/ \E c \in Awaited(other.kw, {"wait"}) : OtherKeywordResolve(WorldStore(world, c))
  \/ OtherGraphResolve
  \/ \E c \in Awaited(other.vec, {"query"}) : OtherVectorResolve(WorldIndex(world, c))
  \/ \E c \in Awaited(other.ev, {"query"}) : OtherEntityVectorResolve(WorldIndex(world, c))
  \/ OtherJoin
  \/ OtherRefineResolve(WorldSynth(world))
  \/ OtherTrackResolve
  \/ \E resp \in DecrementAnswers(users, other.useHeroPoints) : OtherDecrementResolve(resp)
SpecSameUser == InitSameUser /\ [][NextSameUser]_vars

\* ------------------------------------------------------------------ claims
Returned == pc \in {"refine", "synth", "done", "threw"}
ExecuteOk == Len(toolResults) = 1 /\ toolResults[1].success
KeywordFailed == kw.resp.kind \in {"throw", "error"}
ExtractionErrored == kg.resp.kind = "throw" \/ (kg.resp.kind = "ok" /\ kg.resp.syn = "bad")
AllIndexCallsFailed == Len(vec.calls) >= 1 /\ vec.failed = Len(vec.calls)
AllPrimaryFailed == KeywordFailed /\ ExtractionErrored /\ AllIndexCallsFailed
NotFoundAnswer == Answer(NotFoundMessage, Frac(0, 1))

\* C1: if the keyword, knowledge-graph and vector searches all fail, the
\* pipeline answers with the fixed not-found message and confidence 0 and
\* makes no synthesis call.
C1_AllFailedGivesNotFound ==
  (Returned /\ AllPrimaryFailed) =>
    /\ synth.calls = 0
    /\ pc = "done" => answer = NotFoundAnswer

SourceRank(item) ==
  IF item.source = "keyword" THEN 1
  ELSE IF item.source = "knowledge_graph" THEN 2
  ELSE IF item.type = "vector" THEN 3
  ELSE 4
\* C2: the result list execute returns is the keyword results, then the
\* knowledge-graph results, then the vector results, then the entity-driven
\* vector results, each in its adapter's order, nothing dropped or merged.
C2_MergedIsConcatenation ==
  ExecuteOk =>
    LET results == toolResults[1].data.results
    IN /\ results = kw.results \o kg.results \o vec.allResults \o ev.results
       /\ Len(results) = Len(kw.results) + Len(kg.results) + Len(vec.allResults) + Len(ev.results)
       /\ toolResults[1].data.totalResults = Len(results)
       /\ \A a, b \in 1..Len(results) : a < b => SourceRank(results[a]) <= SourceRank(results[b])
C2_Witness ==
  /\ pc = "done" /\ ExecuteOk
  /\ Len(kw.results) = 2 /\ Len(kg.results) >= 3 /\ Len(vec.allResults) >= 3
  /\ Len(ev.results) >= 2

RephraseUnusable ==
  \/ rephraseResp.kind = "throw"
  \/ rephraseResp.kind = "ok" /\ rephraseResp.syn \in {"bad", "empty"}
  \/ rephraseResp.kind = "ok" /\ rephraseResp.syn = "json" /\ rephraseResp.val.t # "array"
\* C3: when the rephrase call errors or its output is no list of rephrasings,
\* execute still runs the three searches and the vector search looks up the
\* original query alone.
C3_RephraseFailureKeepsPipeline ==
  (Returned /\ toolRegistered /\ clerkUserId # Null /\ RephraseUnusable) =>
    /\ Len(kw.calls) = 1
    /\ kg.pc = "done"
    /\ vec.calls = <<IndexCall(Query, clerkUserId, VectorLimit, AnyDoc)>>

InRange(x) == Leq(Frac(0, 1), x) /\ Leq(x, Frac(95, 1))
\* C5: for every list of outcomes the confidence lies in [0, 95].
C5_ConfidenceInRange ==
  /\ InRange(calculateConfidence(toolResults))
  /\ answer.set => InRange(answer.confidence)
C5_Witness ==
  /\ pc = "done" /\ Len(toolResults) = 4 /\ Len(Successful(toolResults)) = 4
  /\ answer.confidence = Frac(95, 1)

SameTotal(results) == {r \in RefinerInputs : Len(r) = Len(results)}
\* C6: for a fixed total the confidence does not decrease when the number of
\* successful outcomes grows.
C6_ConfidenceMonotone ==
  \A r \in SameTotal(toolResults) :
    /\ Len(Successful(r)) >= Len(Successful(toolResults))
         => Leq(calculateConfidence(toolResults), calculateConfidence(r))
    /\ (pc = "done" /\ synth.calls = 1 /\ Len(Successful(r)) <= Len(Successful(toolResults)))
         => Leq(calculateConfidence(r), answer.confidence)
C6_Witness ==
  /\ pc = "done" /\ synth.calls = 1
  /\ Len(toolResults) = 3 /\ Len(Successful(toolResults)) = 2
  /\ answer.confidence = Frac(200, 3)

ReferenceConfidence(successes, total) ==
  IF total = 0 THEN Frac(0, 1)
  ELSE LET rate == Frac(successes * 100, total)
           capped(cap) == IF Leq(Frac(cap, 1), rate) THEN Frac(cap, 1) ELSE rate
       IN IF successes >= 3 THEN capped(95)
          ELSE IF successes = 2 THEN capped(85)
          ELSE IF successes = 1 THEN capped(70)
          ELSE rate
\* C7: calculateConfidence is the reference formula; (1,1) gives 70, (2,2)
\* gives 85, (3,3) gives 95 and (2,4) gives 50.
C7_ConfidenceFormula ==
  LET s == Len(Successful(toolResults))
      t == Len(toolResults)
      c == calculateConfidence(toolResults)
  IN /\ c = ReferenceConfidence(s, t)
     /\ (s = 1 /\ t = 1) => c = Frac(70, 1)
     /\ (s = 2 /\ t = 2) => c = Frac(85, 1)
     /\ (s = 3 /\ t = 3) => c = Frac(95, 1)
     /\ (s = 2 /\ t = 4) => c = Frac(50, 1)
     /\ (pc = "done" /\ synth.calls = 1) => answer.confidence = ReferenceConfidence(s, t)
C7_Witness ==
  /\ pc = "done" /\ synth.calls = 1
  /\ Len(toolResults) = 4 /\ Len(Successful(toolResults)) = 2
  /\ answer.confidence = Frac(50, 1)

\* C8: whatever the rephrase completion is, rephraseQuery yields a list of 0
\* to 2 strings, so the vector search gets 1 to 3 queries, the original first.
C8_AtMostTwoRephrasings ==
  rephraseResp.kind # "none" =>
    /\ rephraseQuery(rephraseResp).t = "array"
    /\ Len(rephraseQuery(rephraseResp).v) <= 2
    /\ Len(allQueries) \in 1..3
    /\ allQueries[1] = Query
    /\ vec.pc # "idle"

ExtractedNone ==
  \/ kg.resp.kind = "throw"
  \/ kg.resp.kind = "ok" /\ kg.resp.syn \in {"bad", "empty"}
  \/ kg.resp.kind = "ok" /\ kg.resp.syn = "json"
       /\ (kg.resp.val.t # "entities" \/ Len(kg.resp.val.v) = 0)
\* C9: with zero extracted entities knowledgeGraphSearch returns no results,
\* no entity names and no pairs, and issues no store call.
C9_NoEntitiesNoStoreCalls ==
  ExtractedNone =>
    /\ kg.pc = "done"
    /\ kg.results = <<>> /\ kg.foundEntities = <<>> /\ kg.entitiesWithDocuments = <<>>
    /\ kg.calls = <<>>
C9_Witness ==
  /\ kg.pc = "done" /\ kg.resp.kind = "ok" /\ kg.resp.syn = "bad"
  /\ kw.pc = "done" /\ Len(kw.results) = 2

EntityVectorCalls(n) ==
  [i \in 1..n |-> IndexCall(kg.entitiesWithDocuments[i].entity, clerkUserId, EntityVectorLimit,
                            kg.entitiesWithDocuments[i].documentId)]
\* C10: the entity-driven expansion issues one document-filtered lookup per
\* pair the knowledge-graph search of the request returned, in the pairs'
\* order and for no other pair; none when there is no pair.
C10_OneLookupPerPair ==
  /\ pc \in {"start", "rephrase", "search"} => ev.calls = <<>>
  /\ Len(ev.calls) <= Len(kg.entitiesWithDocuments)
  /\ ev.calls = EntityVectorCalls(Len(ev.calls))
  /\ (Returned /\ ExecuteOk) => Len(ev.calls) = Len(kg.entitiesWithDocuments)
C10_Witness ==
  /\ pc = "done" /\ ExecuteOk
  /\ Len(kg.entitiesWithDocuments) = 3 /\ Len(ev.calls) = 3
  /\ Len(ev.results) = 1

VectorCalls(n) == [i \in 1..n |-> IndexCall(allQueries[i], clerkUserId, VectorLimit, AnyDoc)]
\* the lookups of vectorSearch that have resolved
VectorAnswered ==
  IF vec.pc = "query" THEN vec.i - 1 ELSE IF vec.pc = "done" THEN Len(vec.calls) ELSE 0
CorpusHits(i) ==
  LET docs == Take(IndexDocs(allQueries[i]), VectorLimit)
  IN [k \in 1..Len(docs) |-> VectorItem(allQueries[i], docs[k])]
\* the hits of the queries in S among the first n, in list order
RECURSIVE HitsOf(_, _)
HitsOf(S, n) ==
  IF n = 0 THEN <<>>
  ELSE HitsOf(S, n - 1) \o (IF n \in S THEN CorpusHits(n) ELSE <<>>)
PrimaryResolved == kw.pc = "done" /\ kg.pc = "done" /\ vec.pc = "done"
\* C12: no entity-driven vector lookup is issued, and execute does not move
\* past the join, while any of the keyword, knowledge-graph and vector
\* searches is unresolved; a knowledge-graph search that resolved first
\* waits with its pairs.
C12_ExpansionAfterJoin ==
  /\ (ev.pc # "idle" \/ ev.calls # <<>>) => PrimaryResolved
  /\ pc \in {"entityVector", "refine", "synth", "done", "threw"} /\ allQueries # <<>>
       => PrimaryResolved
  /\ (pc = "search" /\ ~PrimaryResolved) => ev = EvIdle
C12_Witness ==
  /\ pc = "search" /\ kg.pc = "done" /\ Len(kg.entitiesWithDocuments) = 3
  /\ kw.pc = "wait" /\ vec.pc = "query" /\ Len(vec.calls) = 1
  /\ ev = EvIdle

\* C13: when the synthesis completion call fails after at least one
\* sub-execution succeeded, refineResults still returns a RefinedAnswer (a
\* default one) and raises nothing to its caller.
C13_SynthesisFailureRecovered ==
  /\ pc # "threw"
  /\ (synth.calls = 1 /\ synth.resp.kind = "throw") => (pc = "done" /\ answer.set)

\* C14: a keyword store call that returns an error value or throws makes
\* keywordSearch resolve with zero results and never reject; the join is not
\* held up, and execute returns success with the knowledge-graph, vector and
\* entity-vector results as those searches produced them.
C14_KeywordFailureContained ==
  /\ kw.pc \in {"idle", "wait", "done"}
  /\ KeywordFailed => (kw.pc = "done" /\ kw.results = <<>>)
  /\ (KeywordFailed /\ pc = "search" /\ kg.pc = "done" /\ vec.pc = "done") => ENABLED Join
  /\ (KeywordFailed /\ Returned) =>
       /\ ExecuteOk
       /\ toolResults[1].data.results = kg.results \o vec.allResults \o ev.results
       /\ toolResults[1].data.sources.keyword = 0
C14_Witness ==
  /\ pc = "done" /\ kw.resp.kind = "throw" /\ ExecuteOk
  /\ Len(kg.results) >= 3 /\ Len(vec.allResults) >= 3 /\ Len(ev.results) >= 2
  /\ toolResults[1].data.totalResults >= 8

IsPrefix(a, b) == Len(a) <= Len(b) /\ SubSeq(b, 1, Len(a)) = a
LookupCalls == SelectSeq(kg.calls, LAMBDA c : c.fn = "search_knowledge_entities")
ExpectedLookups(n) ==
  [i \in 1..n |-> StoreCall("search_knowledge_entities", kg.extracted[i], clerkUserId, AnyDoc)]
\* the extracted entities knowledgeGraphSearch has reached
KgReached ==
  IF kg.pc \in {"lookup", "rel", "related"} THEN kg.i
  ELSE IF kg.pc = "done" THEN Len(kg.extracted) ELSE 0
KgEveryEntityLookedUp == LookupCalls = ExpectedLookups(KgReached)
KgKeepsWhatItHas ==
  kg.pc \in {"lookup", "rel", "related"} =>
    /\ IsPrefix(kg.results, kg'.results)
    /\ IsPrefix(kg.entitiesWithDocuments, kg'.entitiesWithDocuments)
    /\ IsPrefix(kg.foundEntities, kg'.foundEntities)
\* C15: whatever a store call of knowledgeGraphSearch answers (rows, error
\* value, null, exception), every extracted entity is looked up, in order,
\* and no step removes a result, a name or an (entity, documentId) pair
\* already accumulated.
C15_GraphFailureIsolated == [](KgEveryEntityLookedUp) /\ [][KgKeepsWhatItHas]_vars
C15_Witness ==
  /\ kg.pc = "done" /\ kg.faults = 1 /\ kg.extracted = <<"e1", "e2">>
  /\ kg.entitiesWithDocuments = <<[entity |-> "e1", documentId |-> "d1"],
                                  [entity |-> "e2", documentId |-> "d1"]>>
  /\ Len(LookupCalls) = 2

IsInteger(x) == x.den = 1
InPercentRange(x) == Leq(Frac(0, 1), x) /\ Leq(x, Frac(100, 1))
\* C18: for every list of sub-execution outcomes the confidence the scorer
\* computes, and the confidence of every RefinedAnswer, is an integer
\* between 0 and 100.
C18_ConfidenceIsInteger ==
  /\ IsInteger(calculateConfidence(toolResults)) /\ InPercentRange(calculateConfidence(toolResults))
  /\ answer.set => (IsInteger(answer.confidence) /\ InPercentRange(answer.confidence))

\* each search run on its own in world w: the states it passes through
KwAlone(w, user) ==
  LET k == KwStart(Query, user)
      resp == WorldStore(w, Last(k.calls))
  IN {k, [k EXCEPT !.pc = "done", !.resp = resp, !.results = keywordSearch(resp)]}
RECURSIVE KgAlone(_, _, _)
KgAlone(k, w, user) ==
  IF k.pc = "done" THEN {k} ELSE {k} \cup KgAlone(KgStep(k, w, user), w, user)
RECURSIVE VecAlone(_, _, _, _)
VecAlone(v, queries, w, user) ==
  IF v.pc = "done" THEN {v}
  ELSE {v} \cup VecAlone(VecAfter(v, queries, WorldIndex(w, Last(v.calls)), user), queries, w, user)
RECURSIVE EvAlone(_, _, _, _)
EvAlone(e, pairs, w, user) ==
  IF e.pc = "done" THEN {e}
  ELSE {e} \cup EvAlone(EvAfter(e, pairs, WorldIndex(w, Last(e.calls)), user), pairs, w, user)
Finished(states) == CHOOSE x \in states : x.pc = "done"
\* the result list of execute in world w with the four searches run one
\* after the other
ResultsAlone(w, user) ==
  LET queries == <<Query>> \o rephraseQuery(w.rephrase).v
      k == Finished(KwAlone(w, user))
      g == Finished(KgAlone(KgStart, w, user))
      v == Finished(VecAlone(VecStart(queries, user), queries, w, user))
      e == Finished(EvAlone(EvStart(g.entitiesWithDocuments, user), g.entitiesWithDocuments,
                            w, user))
  IN k.results \o g.results \o v.allResults \o e.results
\* C20: in a fixed world every interleaving takes each of the three searches
\* through the states of its run alone (no step of one search changes what
\* another holds or does), execute merges only when all three are done, and
\* the result list is the one of the searches run one after the other.
C20_InterleavingIndependent ==
  pc \notin {"start", "rephrase"} =>
    /\ kw \in KwAlone(world, clerkUserId)
    /\ kg \in KgAlone(KgStart, world, clerkUserId)
    /\ vec \in VecAlone(VecStart(allQueries, clerkUserId), allQueries, world, clerkUserId)
    /\ ExecuteOk =>
         /\ PrimaryResolved
         /\ toolResults[1].data.results = ResultsAlone(world, clerkUserId)
C20_Witness ==
  /\ pc = "refine" /\ ExecuteOk
  /\ world.keyword = "rows" /\ world.fault.kind = "throw" /\ world.indexDown = {Query}
  /\ Len(world.extract.val.v) = 2 /\ Len(allQueries) = 2
  /\ Len(toolResults[1].data.results) >= 8

KwStalled == kw.pc = "wait" /\ Stalled(world, "kw", Len(kw.calls))
KgStalled ==
  /\ kg.pc \in {"extract", "lookup", "rel", "related"}
  /\ Stalled(world, "kg", Len(kg.calls) + 1)
VecStalled == vec.pc = "query" /\ Stalled(world, "vec", Len(vec.calls))
EvStalled == ev.pc = "query" /\ Stalled(world, "ev", Len(ev.calls))
LlmStalled(at) == pc = at /\ Stalled(world, at, 1)
PrimaryStalled == KwStalled \/ KgStalled \/ VecStalled
AnyStalled == PrimaryStalled \/ EvStalled \/ LlmStalled("rephrase") \/ LlmStalled("synth")
\* C19: a request returns an answer exactly if every call it issues resolves:
\* while a call of one of the three joined searches stays unresolved no
\* entity-driven lookup starts and nothing is returned, a returned answer
\* leaves no call unresolved, and when no call is left unresolved and nothing
\* is left to run, refineResults has returned its answer.
C19_ReturnsIffCallsResolve ==
  /\ PrimaryStalled => (pc = "search" /\ ev = EvIdle /\ toolResults = <<>> /\ ~answer.set)
  /\ (pc = "done" /\ answer.set) => ~AnyStalled
  /\ ~ENABLED NextFixed => (AnyStalled \/ (pc = "done" /\ answer.set))
\* with every resolving call resolved in the end, refineResults finishes,
\* by a return or by the exception of the synthesis call, or a call stays
\* unresolved and blocks it
C19_FinishesOrBlocks ==
  /\ <>(AnyStalled \/ pc \in {"done", "threw"})
  /\ [](PrimaryStalled => [](pc = "search" /\ ev = EvIdle))
  /\ [](pc = "threw" => (synth.resp.kind = "throw" /\ ~AnyStalled))
C19_StalledWitness ==
  /\ VecStalled /\ Len(vec.calls) = 2
  /\ kw.pc = "done" /\ kg.pc = "done" /\ Len(kg.entitiesWithDocuments) = 1
  /\ pc = "search" /\ ev = EvIdle

FixedMessages ==
  {Messages.authRequired, Messages.usageUnverified, Messages.userNotFound, Messages.dailyLimit,
   Messages.monthlyLimit, Messages.usageFallback, Messages.usageDefault, NotFoundMessage,
   UnableMessage, Messages.generic, Messages.busy, Messages.connection}
\* the error texts of failed calls and of failed sub-executions
ErrorTexts ==
  ErrorMessages \cup {UserRequiredError, NotIterableError, "Tool not found"}
    \cup {toolResults[n].error : n \in {m \in 1..Len(toolResults) : ~toolResults[m].success}}
\* C17: whatever fails, the text the handler returns is the synthesized
\* answer or one of the fixed messages and is no error text of a failed call
\* or sub-execution; the synthesis prompt holds the tool name and data of
\* successful sub-executions only, and none is built when none succeeded.
C17_NoErrorDetailLeaves ==
  /\ h.pc = "returned" =>
       \/ h.text \in FixedMessages
       \/ synth.resp.kind = "ok" /\ synth.resp.text # "" /\ h.text = synth.resp.text
  /\ h.text \notin ErrorTexts
  /\ \A n \in 1..Len(synth.prompt) :
       /\ synth.prompt[n].data.present
       /\ \E m \in 1..Len(toolResults) :
            /\ toolResults[m].success
            /\ synth.prompt[n] = [tool |-> toolResults[m].tool, data |-> toolResults[m].data]
  /\ Len(Successful(toolResults)) = 0 => (synth.calls = 0 /\ synth.prompt = <<>>)
C17_Witness ==
  /\ h.pc = "returned" /\ pc = "threw"
  /\ synth.resp = SynthError("connect ECONNREFUSED 127.0.0.1:443")
  /\ h.text = Messages.connection
  /\ KeywordFailed /\ vec.failed = 1 /\ kg.faults = 1

\* the calls and the items of one execution belong to user
OwnCallsOnly(user, k, g, v, e) ==
  /\ \A n \in 1..Len(k.calls) : k.calls[n].user_id = user
  /\ \A n \in 1..Len(g.calls) : g.calls[n].user_id = user
  /\ \A n \in 1..Len(v.calls) : v.calls[n].tenant = user
  /\ \A n \in 1..Len(e.calls) : e.calls[n].tenant = user
OwnItemsOnly(user, results) == \A n \in 1..Len(results) : results[n].data_id \in DocsOf(user)
\* C16: with two requests of different users served at once, every store
\* and index call of a request carries that request's user id, and every
\* item a request holds or returns comes from that user's partition.
C16_TenantIsolation ==
  /\ OwnCallsOnly(clerkUserId, kw, kg, vec, ev)
  /\ OwnItemsOnly(clerkUserId, kw.results \o kg.results \o vec.allResults \o ev.results)
  /\ ExecuteOk => OwnItemsOnly(clerkUserId, toolResults[1].data.results)
  /\ OwnCallsOnly(other.user, other.kw, other.kg, other.vec, other.ev)
  /\ OwnItemsOnly(other.user, other.kw.results \o other.kg.results \o other.vec.allResults
                                \o other.ev.results)
  /\ OwnItemsOnly(other.user, other.results)
  /\ DocsOf(clerkUserId) \cap DocsOf(other.user) = {}
C16_Witness ==
  /\ pc = "entityVector" /\ Len(ev.calls) = 1 /\ Len(kg.results) >= 3
  /\ other.pc = "search" /\ other.kg.pc = "related" /\ other.vec.pc = "query"
  /\ Len(other.kw.results) = 2 /\ Len(other.kg.results) >= 1 /\ Len(other.vec.allResults) >= 1
\* nearText calls issued and not yet resolved: the loops have consumed the
\* answers of the calls before the one they await
IndexInFlight ==
  (Len(vec.calls) - (IF vec.pc = "query" THEN vec.i - 1 ELSE Len(vec.calls)))
    + (Len(ev.calls) - (IF ev.pc = "query" THEN ev.i - 1 ELSE Len(ev.calls)))
\* knowledgeGraphSearch issues a store call only in the step that consumes
\* the answer it was awaiting, and then only one
KgIssuesOnResolve ==
  kg'.calls # kg.calls =>
    /\ kg.pc \in {"extract", "lookup", "rel", "related"}
    /\ Len(kg'.calls) = Len(kg.calls) + 1
    /\ IsPrefix(kg.calls, kg'.calls)
    /\ kg'.pc \in {"lookup", "rel", "related"}
\* C21: within one request the lookups of each search are sequential: at
\* most one nearText call is unresolved at any moment, no entity-driven
\* lookup is issued before vectorSearch is done, and knowledgeGraphSearch
\* issues its next store call only when the one before has resolved.
C21_SequentialLookups ==
  /\ [](IndexInFlight <= 1 /\ (ev.calls # <<>> => vec.pc = "done"))
  /\ [][KgIssuesOnResolve]_vars
C21_Witness ==
  /\ pc = "entityVector" /\ ev.pc = "query" /\ Len(ev.calls) = 2
  /\ Len(vec.calls) = 3 /\ Len(kg.calls) >= 5 /\ IndexInFlight = 1

\* the step in which the relationship lookup for match j resolves goes on to
\* the co-located-entity lookup for the same match, with every match kept
RelationshipsStepGoesOn ==
  (kg.pc = "rel" /\ kg' # kg) =>
    /\ kg'.pc = "related" /\ kg'.rows = kg.rows /\ kg'.j = kg.j
    /\ kg'.calls = Append(kg.calls, StoreCall("get_related_entities", kg.rows[kg.j].entity_name,
                                              clerkUserId, kg.rows[kg.j].data_id))
\* C22: when the relationship lookup for a matched entity fails, by an
\* error value or by an exception, the co-located-entity lookup for the
\* same match is still made and the remaining matches of the same extracted
\* entity are still processed.
C22_RelationshipFailureSkipsOnlyItself == [][RelationshipsStepGoesOn]_vars

EntityResults(k) == SelectSeq(k.results, LAMBDA r : r.type = "entity")
PairsOfResults(k) ==
  [n \in 1..Len(EntityResults(k)) |->
     [entity |-> EntityResults(k)[n].name, documentId |-> EntityResults(k)[n].data_id]]
PairsLookedUp ==
  [n \in 1..Len(ev.calls) |-> [entity |-> ev.calls[n].concepts, documentId |-> ev.calls[n].document_id]]
CallsOf(fn) == SelectSeq(kg.calls, LAMBDA c : c.fn = fn)
\* C23: what knowledgeGraphSearch holds and returns pairs every entity-type
\* result with an (entity, documentId) pair of the same name and document,
\* in the same order, also for a match whose relationship or co-located
\* lookup failed afterwards; and the entity-driven lookups of a finished
\* execute are those pairs.
C23_PairsMatchEntityResults ==
  /\ PairsOfResults(kg) = kg.entitiesWithDocuments
  /\ ExecuteOk => PairsLookedUp = kg.entitiesWithDocuments
C23_Witness ==
  /\ pc = "done" /\ ExecuteOk /\ kg.faults = 1 /\ kg.extracted = <<"e1", "e2">>
  /\ kg.entitiesWithDocuments = <<[entity |-> "e1", documentId |-> "d1"],
                                  [entity |-> "e2", documentId |-> "d1"]>>
  /\ Len(CallsOf("search_knowledge_relationships")) = 2
  /\ Len(CallsOf("get_related_entities")) = 1
  /\ Len(ev.calls) = 2

\* the lookups of searchEntitiesInVector that have resolved
EvAnswered == IF ev.pc = "query" THEN ev.i - 1 ELSE Len(ev.calls)
\* what the lookup for pair n contributes in this world, on its own
PairHits(n) ==
  LET call == EntityVectorCalls(n)[n]
      resp == WorldIndex(world, call)
  IN IF resp.kind = "hits"
       THEN [k \in 1..Len(resp.docs) |-> EntityVectorItem(call.concepts, resp.docs[k])]
       ELSE <<>>
RECURSIVE PairHitsUpTo(_)
PairHitsUpTo(n) == IF n = 0 THEN <<>> ELSE PairHitsUpTo(n - 1) \o PairHits(n)
\* C24: searchEntitiesInVector looks every pair up exactly once, in list
\* order, whatever the lookups of the other pairs did; its results are, in
\* list order, what each pair's own lookup contributes (nothing for a lookup
\* that threw); and it always returns.
C24_PairFailureIsolated ==
  /\ ev.calls = EntityVectorCalls(Len(ev.calls))
  /\ ev.pc = "query" => Len(ev.calls) = ev.i
  /\ ev.pc = "done" => Len(ev.calls) = Len(kg.entitiesWithDocuments)
  /\ ev.results = PairHitsUpTo(EvAnswered)
  /\ ev.pc \in {"idle", "query", "done"}
  /\ pc = "entityVector" => ev.pc = "query"
  /\ Returned /\ ExecuteOk => ev.pc = "done"
C24_Witness ==
  /\ ev.pc = "done" /\ world.indexDown = {"e1"}
  /\ kg.entitiesWithDocuments = <<[entity |-> "e1", documentId |-> "d1"],
                                  [entity |-> "e1", documentId |-> "d2"],
                                  [entity |-> "e2", documentId |-> "d1"]>>
  /\ Len(ev.calls) = 3
  /\ ev.results = <<EntityVectorItem("e2", "d1")>>

\* the rephrase result is a list
RephrasedIsList == rephraseResp # NoResp /\ rephraseQuery(rephraseResp).t = "array"
\* C25: with a user id and a rephrase result that is a list, execute
\* returns success=true whatever the keyword rpc, the extraction completion,
\* the graph rpcs and the index lookups did: their failures leave a shorter
\* result list, possibly empty, and never a failed execution.
C25_SearchFailuresNeverFailExecute ==
  (toolRegistered /\ clerkUserId # Null /\ RephrasedIsList) =>
    /\ pc \in {"search", "entityVector"} \/ Returned
    /\ pc \in {"search", "entityVector"} => toolResults = <<>>
    /\ Returned =>
         /\ Len(toolResults) = 1
         /\ toolResults[1].success /\ toolResults[1].error = ""
         /\ toolResults[1].data.present
         /\ toolResults[1].data.totalResults = Len(toolResults[1].data.results)
         /\ toolResults[1].data.results =
              allResults(kw.results, kg.results, vec.allResults, ev.results)
C25_Witness ==
  /\ pc = "done" /\ ExecuteOk
  /\ kw.resp.kind = "throw" /\ ExtractionErrored /\ AllIndexCallsFailed
  /\ Len(vec.calls) = 3
  /\ toolResults[1].data.totalResults = 0

\* C26: in every request served by the handler executeTools returns exactly
\* one outcome, that of the first tool of the plan, so calculateConfidence
\* sees total = 1 and the confidence of the answer is 0 (no successful
\* outcome) or 70 (one); the caps 85 and 95 are never applied.
C26_OneOutcomeZeroOrSeventy ==
  /\ Len(toolResults) <= 1
  /\ Returned => (Len(toolResults) = 1 /\ toolResults[1].tool = ToolName)
  /\ synth.calls <= 1
  /\ answer.set =>
       /\ answer.confidence = (IF ExecuteOk THEN Frac(Cap1, 1) ELSE Frac(0, 1))
       /\ answer.confidence \notin {Frac(Cap2, 1), Frac(Cap3, 1)}
C26_Witness ==
  /\ h.pc = "returned" /\ pc = "done" /\ ExecuteOk
  /\ answer.confidence = Frac(Cap1, 1) /\ h.text = "answer"
  /\ toolResults[1].data.totalResults >= 3

C26_ZeroWitness ==
  /\ h.pc = "returned" /\ pc = "done" /\ ~ExecuteOk /\ Len(toolResults) = 1
  /\ answer.confidence = Frac(0, 1) /\ h.text = NotFoundMessage

\* C27: the handler ends every execution by returning a text and never by
\* an exception: it stops only in its returned state, with a text, and an
\* exception that leaves the pipeline is answered with the busy, the
\* connection or the generic message.
C27_HandlerAlwaysAnswers ==
  /\ h.pc \in {"start", "usage", "pipeline", "track", "decrement", "returned"}
  /\ ~ENABLED NextHandler => h.pc = "returned"
  /\ h.pc = "returned" => h.text # ""
  /\ pc = "threw" => h.pc \in {"pipeline", "returned"}
  /\ (pc = "threw" /\ h.pc = "returned") =>
       h.text \in {Messages.busy, Messages.connection, Messages.generic}
C27_Witness ==
  /\ h.pc = "returned" /\ pc = "threw"
  /\ synth.resp = SynthError("429 You exceeded your current quota, please check your plan and billing details.")
  /\ h.text = Messages.busy /\ ~ENABLED NextHandler

\* no call to the users table, the store, the index or the LLM has been made
NoExternalCall ==
  /\ h.calls = <<>> /\ rephraseResp = NoResp /\ synth.calls = 0
  /\ kw = KwIdle /\ kg = KgIdle /\ vec = VecIdle /\ ev = EvIdle
  /\ pc \notin {"rephrase", "search", "entityVector", "synth", "threw"}
\* C28: for a request without a user id no external call is ever made: the
\* handler returns the authentication-required text without checking usage
\* and without starting the pipeline, and execute returns success=false with
\* its clerk_user_id error before the rephrase call and before any search.
C28_NoCallWithoutUser ==
  clerkUserId = Null =>
    /\ NoExternalCall
    /\ h.pc \in {"idle", "start", "returned"}
    /\ h.pc = "returned" => (h.text = Messages.authRequired /\ pc = "idle")
    /\ Returned => (h.pc = "idle" /\ ~ExecuteOk /\ Len(toolResults) = 1)
    /\ (Returned /\ toolRegistered) => toolResults = ExecuteFailed(UserRequiredError)
C28_Witness ==
  /\ clerkUserId = Null /\ toolRegistered /\ pc = "done"
  /\ toolResults = ExecuteFailed(UserRequiredError)
  /\ answer.content = NotFoundMessage /\ NoExternalCall
C28_HandlerWitness ==
  /\ clerkUserId = Null /\ h.pc = "returned" /\ h.text = Messages.authRequired
  /\ NoExternalCall /\ ~ENABLED NextHandler

\* executeTools has not been called: no search and no LLM call
PipelineNotStarted ==
  /\ pc = "idle" /\ rephraseResp = NoResp /\ allQueries = <<>> /\ toolResults = <<>>
  /\ kw = KwIdle /\ kg = KgIdle /\ vec = VecIdle /\ ev = EvIdle
  /\ synth = SynthIdle /\ ~answer.set
UsageMessages ==
  {Messages.usageUnverified, Messages.userNotFound, Messages.dailyLimit, Messages.monthlyLimit,
   Messages.usageFallback, Messages.usageDefault}
\* C29: the pipeline starts only after checkUsageLimit has resolved with
\* canProceed = true; when it resolves with canProceed = false, a failed
\* usage lookup included, the handler returns the limit message having made
\* no search, no LLM call, no trackUsage and no decrementUsage.
C29_UsageCheckGates ==
  /\ h.pc \in {"start", "usage"} => PipelineNotStarted
  /\ ~PipelineNotStarted =>
       /\ h.usageCheck.canProceed
       /\ h.calls[1] = UsageCall("users.select", clerkUserId, "")
  /\ (h.pc = "returned" /\ clerkUserId # Null /\ ~h.usageCheck.canProceed) =>
       /\ PipelineNotStarted
       /\ h.calls = <<UsageCall("users.select", clerkUserId, "")>>
       /\ ~h.decremented
       /\ h.text \in UsageMessages
C29_Witness ==
  /\ h.pc = "returned" /\ clerkUserId = User /\ ~h.usageCheck.canProceed
  /\ h.text = Messages.usageUnverified /\ Len(h.calls) = 1 /\ PipelineNotStarted

HandlerCalls(fn) == SelectSeq(h.calls, LAMBDA c : c.fn = fn)
\* C30: decrementUsage is called at most once in a request, after
\* executeTools and refineResults have both returned and after trackUsage;
\* it is not called, and neither is trackUsage, when refineResults raised;
\* and whatever trackUsage and decrementUsage do, the text returned is the
\* content refineResults produced.
C30_DecrementOnceAfterSuccess ==
  /\ Len(HandlerCalls("decrement_usage")) <= 1
  /\ Len(HandlerCalls("requests.insert")) <= 1
  /\ HandlerCalls("decrement_usage") # <<>> =>
       /\ pc = "done" /\ answer.set
       /\ Len(h.calls) = 3 /\ h.calls[2].fn = "requests.insert"
       /\ Last(h.calls) = UsageCall("decrement_usage", clerkUserId,
                                    IF h.useHeroPoints THEN "hero" ELSE "daily")
  /\ pc # "done" => (HandlerCalls("decrement_usage") = <<>> /\ HandlerCalls("requests.insert") = <<>>)
  /\ h.decremented => (h.pc = "returned" /\ Len(HandlerCalls("decrement_usage")) = 1)
  /\ (h.pc = "returned" /\ pc = "done") =>
       (h.text = answer.content /\ Len(HandlerCalls("decrement_usage")) = 1)
C30_Witness ==
  /\ h.pc = "returned" /\ pc = "done" /\ ~h.decremented
  /\ Len(HandlerCalls("decrement_usage")) = 1 /\ h.text = "answer"

C30_ThrewWitness ==
  /\ h.pc = "returned" /\ pc = "threw" /\ Len(h.calls) = 1 /\ ~h.decremented

\* requests that passed checkUsageLimit and went on to executeTools
PassedAndRunning ==
  (IF h.usageCheck.canProceed /\ h.pc \notin {"idle", "start", "usage"} /\ pc # "idle"
     THEN 1 ELSE 0)
    + (IF other.usageCheck.canProceed /\ other.pc \notin {"idle", "handler", "usage"}
         THEN 1 ELSE 0)
\* requests available (daily requests plus hero points) in what a check read
Available(usageCheck) == usageCheck.availableToday + usageCheck.heroPoints
\* The row changes only by decrement_usage, which a request calls after it
\* passed, so the first check that read the row read the largest value.
AvailableAtFirstCheck ==
  IF Available(h.usageCheck) >= Available(other.usageCheck)
    THEN Available(h.usageCheck) ELSE Available(other.usageCheck)
\* C31: of the requests one user has in progress at once, those that passed
\* the usage check and ran the pipeline are never more than the requests the
\* user had available (daily plus hero points) when the first was checked.
C31_PassedWithinAvailable == PassedAndRunning <= AvailableAtFirstCheck
C31_BothPassedOnOne ==
  /\ PassedAndRunning = 2 /\ AvailableAtFirstCheck = 1
  /\ pc = "search" /\ other.pc = "search"

====
